---- MODULE Spec2Model ----
(***************************************************************************)
(* Health-risk analysis service: the five-step analysis pipeline           *)
(* (services/pipeline.js), its guardrails (services/guardrails.js), the    *)
(* survey parser, factor extractor, risk classifier and recommendation     *)
(* engine, and the two HTTP handlers of server.js that run a full          *)
(* analysis.                                                               *)
(*                                                                         *)
(* JavaScript values are tagged records [t |-> <typeof-like tag>, ...]:    *)
(* the tag is compared first, so values of different types are unequal.    *)
(* Confidences are kept in hundredths (0.3 is 30).                         *)
(***************************************************************************)
EXTENDS Integers, Sequences, FiniteSets, TLC

VARIABLES
    input,        \* argument `input` of the call / field `input` of the request body
    options,      \* argument `options` of runAnalysisPipeline
    origin,       \* "direct": runAnalysisPipeline called by a JS caller; "http": by POST /api/analyze
    body,         \* the request body of an HTTP request
    pc,           \* position inside runAnalysisPipeline
    isOcr,        \* destructured local isOcr
    steps,        \* pipelineResult.steps
    success,      \* pipelineResult.success
    data,         \* pipelineResult.data
    error,        \* pipelineResult.error
    parseResult,  \* local parseResult (after range correction once the parse step is done)
    warnings,     \* completenessCheck.warnings
    factorResult, \* local factorResult
    riskResult,   \* local riskResult
    analyzeRes,   \* HTTP response of POST /api/analyze
    legacyRes,    \* HTTP response of POST /api/analyze/legacy
    rFactors,     \* classifyRisk called on its own: argument `factors`
    rAnswers,     \* classifyRisk called on its own: argument `answers`
    rOut,         \* classifyRisk called on its own: the returned Risk Result
    call,         \* a service function called on its own: its name and arguments
    ret,          \* a service function called on its own: the value it returned
    runs,         \* several invocations of runAnalysisPipeline in progress: their locals
    tables        \* the content of the module-level tables

pvars == <<input, options, origin, body, pc, isOcr, steps, success, data, error,
           parseResult, warnings, factorResult, riskResult, analyzeRes, legacyRes>>
rvars == <<rFactors, rAnswers, rOut, call, ret, runs, tables>>
vars == <<pvars, rvars>>

----------------------------------------------------------------------------
(* JavaScript values *)

Undef == [t |-> "undefined"]
Null == [t |-> "null"]
NaN == [t |-> "NaN"]
Num(n) == [t |-> "number", v |-> n]
Str(s) == [t |-> "string", v |-> s]
Bool(b) == [t |-> "boolean", v |-> b]
Obj(m) == [t |-> "object", v |-> m]
Arr(seq) == [t |-> "array", v |-> seq]
None == [t |-> "none"]

\* obj[key] on a plain mapping: undefined when the key is absent
Get(m, k) == IF k \in DOMAIN m THEN m[k] ELSE Undef

\* the empty mapping {}
EmptyMap == [k \in {} |-> Undef]

IsNullish(x) == x.t \in {"undefined", "null"}

\* JavaScript truthiness (if (x), x ? a : b, x || y)
Truthy(x) ==
    CASE x.t \in {"undefined", "null", "NaN"} -> FALSE
      [] x.t = "number" -> x.v # 0
      [] x.t = "string" -> x.v # ""
      [] x.t = "boolean" -> x.v
      [] OTHER -> TRUE

Min(a, b) == IF a < b THEN a ELSE b
Max(a, b) == IF a > b THEN a ELSE b

----------------------------------------------------------------------------
(* Strings. The model works on a finite vocabulary of sample strings; the   *)
(* string functions of the code are tabulated on that vocabulary.           *)

\* s.toLowerCase().trim() (no sample string has surrounding blanks)
LowerTable ==
    [s \in {"Yes", "No", "Rarely", "High", "High sugar", "Heavy", "Age", "Smoker",
            "Exercise", "Diet", "Alcohol", "Sleep", "Stress", "BMI"} |->
        CASE s = "Yes" -> "yes"
          [] s = "No" -> "no"
          [] s = "Rarely" -> "rarely"
          [] s = "High" -> "high"
          [] s = "High sugar" -> "high sugar"
          [] s = "Heavy" -> "heavy"
          [] s = "Age" -> "age"
          [] s = "Smoker" -> "smoker"
          [] s = "Exercise" -> "exercise"
          [] s = "Diet" -> "diet"
          [] s = "Alcohol" -> "alcohol"
          [] s = "Sleep" -> "sleep"
          [] s = "Stress" -> "stress"
          [] s = "BMI" -> "bmi"]

toLowerCase(s) == IF s \in DOMAIN LowerTable THEN LowerTable[s] ELSE s

\* the keywords of the code that a sample string contains as a proper substring
ProperSubstrings ==
    [s \in {"junk food", "5food", "fast food"} |->
        CASE s = "junk food" -> {"junk", "food"}
          [] s = "5food" -> {"food"}
          [] s = "fast food" -> {"fast food", "food"}]

\* s.includes(kw), s lower case
includes(s, kw) == s = kw \/ (s \in DOMAIN ProperSubstrings /\ kw \in ProperSubstrings[s])

includesAny(s, kws) == \E kw \in kws : includes(s, kw)

\* the integer a string of decimal digits denotes; the leading digits count
\* (parseInt("5food") is 5), a string with none gives NaN
LeadingDigits ==
    [s \in {"0", "4", "5", "42", "65", "200", "32", "5food"} |->
        CASE s = "0" -> 0
          [] s = "4" -> 4
          [] s = "5" -> 5
          [] s = "42" -> 42
          [] s = "65" -> 65
          [] s = "200" -> 200
          [] s = "32" -> 32
          [] s = "5food" -> 5]

\* String(x)
JsString(x) ==
    CASE x.t = "string" -> x.v
      [] x.t = "boolean" -> IF x.v THEN "true" ELSE "false"
      [] x.t = "number" ->
            IF \E s \in DOMAIN LeadingDigits : LeadingDigits[s] = x.v /\ s # "5food"
            THEN CHOOSE s \in DOMAIN LeadingDigits : LeadingDigits[s] = x.v /\ s # "5food"
            ELSE "<number>"
      [] x.t = "object" -> "[object Object]"
      [] OTHER -> x.t

\* parseInt(x, 10) and parseFloat(x) on the model's integers: String(x) is parsed
parseInt(x) ==
    CASE x.t = "number" -> x
      [] x.t = "string" -> IF x.v \in DOMAIN LeadingDigits THEN Num(LeadingDigits[x.v]) ELSE NaN
      [] OTHER -> NaN

\* the model's numbers are integers, on which parseFloat agrees with parseInt
parseFloat(x) == parseInt(x)

\* a || b
JsOr(a, b) == IF Truthy(a) THEN a ELSE b

----------------------------------------------------------------------------
(* Raw inputs. A string input is described by what the code asks of it:    *)
(* form "blank" trims to the empty string, "badjson" starts with an opening *)
(* brace and is not JSON, "json" is the JSON text of the value `json`,      *)
(* "text" is free text; `lines` are its non-empty lines, each split at      *)
(* /[:\s]+/ into tokens; `len` is the length of the trimmed text.           *)

RECURSIVE TokensLen(_)
TokensLen(toks) == IF toks = <<>> THEN 0 ELSE Len(Head(toks)) + TokensLen(Tail(toks))

\* a line "key: v1 v2" (sep ": ") or "key v1 v2" (sep " ")
LineLen(line) ==
    TokensLen(line.toks)
    + (IF Len(line.toks) >= 2 THEN Len(line.sep) + (Len(line.toks) - 2) ELSE 0)

RECURSIVE LinesLen(_)
LinesLen(lines) ==
    IF lines = <<>> THEN 0
    ELSE LineLen(Head(lines)) + (IF Len(lines) > 1 THEN 1 ELSE 0) + LinesLen(Tail(lines))

Line(sep, toks) == [sep |-> sep, toks |-> toks]

TextInput(lines) ==
    [t |-> "string", form |-> "text", json |-> Undef, lines |-> lines, len |-> LinesLen(lines)]
JsonInput(value, len) ==
    [t |-> "string", form |-> "json", json |-> value, lines |-> <<>>, len |-> len]
BlankInput == [t |-> "string", form |-> "blank", json |-> Undef, lines |-> <<>>, len |-> 0]
\* the text "{age: 42"
BadJsonInput ==
    [t |-> "string", form |-> "badjson", json |-> Undef,
     lines |-> <<Line(": ", <<"{age", "42">>)>>, len |-> 8]
ArrayInput == Arr(<<>>)
\* an object whose ownKeys trap throws (a Proxy): Object.keys(input) raises
ProxyInput == [t |-> "proxy"]

\* the result of a call that may throw
Ok(v) == [ok |-> TRUE, v |-> v]
Throw(msg) == [ok |-> FALSE, v |-> msg]

\* JSON.parse(text)
JsonParse(text) == IF text.form = "json" THEN Ok(text.json) ELSE Throw("SyntaxError")

\* trimmed.startsWith('{')
StartsWithBrace(text) ==
    text.form = "badjson" \/ (text.form = "json" /\ text.json.t = "object")

----------------------------------------------------------------------------
(* services/surveyParser.js *)

EXPECTED_FIELDS == <<"age", "smoker", "exercise", "diet", "alcohol", "sleep", "stress", "bmi">>
CORE_FIELDS == <<"age", "smoker", "exercise", "diet">>

Range(seq) == {seq[i] : i \in DOMAIN seq}

\* m with m[k] = v (answers.k = v)
Put(m, k, v) == [x \in DOMAIN m \cup {k} |-> IF x = k THEN v ELSE m[x]]

normalizeBoolean(value) ==
    IF value.t = "boolean" THEN value
    ELSE IF value.t = "string" /\ toLowerCase(value.v) \in {"yes", "true", "y", "1", "yeah", "yep"}
    THEN Bool(TRUE)
    ELSE IF value.t = "string" /\ toLowerCase(value.v) \in {"no", "false", "n", "0", "nope", "never"}
    THEN Bool(FALSE)
    ELSE Null

normalizeExercise(value) ==
    IF ~Truthy(value) THEN Null
    ELSE LET lower == toLowerCase(JsString(value))
         IN IF lower \in {"never", "none", "rarely", "sedentary", "no"} THEN Str("rarely")
            ELSE IF lower \in {"sometimes", "occasional", "moderate", "1-2 times", "1-2x", "weekly"}
            THEN Str("sometimes")
            ELSE IF lower \in {"often", "regular", "regularly", "frequent", "3-4 times", "3-4x", "daily"}
            THEN Str("regularly")
            ELSE Str(lower)

normalizeDiet(value) ==
    IF ~Truthy(value) THEN Null
    ELSE LET lower == toLowerCase(JsString(value))
         IN IF includesAny(lower, {"high sugar", "junk", "fast food", "unhealthy"})
            THEN Str("high sugar")
            ELSE IF includesAny(lower, {"balanced", "normal", "mixed"}) THEN Str("balanced")
            ELSE IF includesAny(lower, {"healthy", "vegetable", "fruit", "whole"})
            THEN Str("healthy")
            ELSE Str(lower)

normalizeAlcohol(value) ==
    LET val == toLowerCase(JsString(value))
    IN IF includesAny(val, {"heavy", "frequent"}) THEN Str("heavy")
       ELSE IF includesAny(val, {"moderate", "social"}) THEN Str("moderate")
       ELSE IF includesAny(val, {"rarely", "never", "none"}) THEN Str("rarely")
       ELSE Str(val)

\* the field-by-field normalisation of parseJsonInput, rawAnswers a mapping
NormalizeField(f, raw) ==
    CASE f = "age" -> JsOr(parseInt(raw), Null)
      [] f = "smoker" -> normalizeBoolean(raw)
      [] f = "exercise" -> normalizeExercise(raw)
      [] f = "diet" -> normalizeDiet(raw)
      [] f = "alcohol" -> normalizeAlcohol(raw)
      [] f = "sleep" -> JsOr(parseInt(raw), raw)
      [] f = "stress" -> Str(toLowerCase(JsString(raw)))
      [] f = "bmi" -> JsOr(parseFloat(raw), Null)

\* parseJsonInput: a property of null or undefined cannot be read; a number,
\* a boolean or an array has none of the eight properties
parseJsonInput(in) ==
    LET parsed == IF in.t = "string" THEN JsonParse(in) ELSE Ok(in)
    IN IF ~parsed.ok THEN parsed
       ELSE IF IsNullish(parsed.v) THEN Throw("TypeError: Cannot read properties of null")
       ELSE IF parsed.v.t # "object" THEN Ok(EmptyMap)
       ELSE Ok([f \in {g \in Range(EXPECTED_FIELDS) : Get(parsed.v.v, g) # Undef} |->
                   NormalizeField(f, parsed.v.v[f])])

\* lower.match(/kw[:\s]+(\d+)/): the first token "kw" followed by a token that
\* begins with digits
HasNumberAfter(toks, kw) ==
    \E i \in 1..(Len(toks) - 1) :
        toLowerCase(toks[i]) = kw /\ toks[i + 1] \in DOMAIN LeadingDigits

NumberAfter(toks, kw) ==
    LET i == CHOOSE j \in 1..(Len(toks) - 1) :
                 /\ toLowerCase(toks[j]) = kw /\ toks[j + 1] \in DOMAIN LeadingDigits
                 /\ \A k \in 1..(j - 1) :
                       ~(toLowerCase(toks[k]) = kw /\ toks[k + 1] \in DOMAIN LeadingDigits)
    IN Num(LeadingDigits[toks[i + 1]])

\* lower.includes(kw) for one of the keywords
LineIncludes(toks, kws) == \E i \in DOMAIN toks : includesAny(toLowerCase(toks[i]), kws)

RECURSIVE JoinTokens(_)
JoinTokens(toks) ==
    IF toks = <<>> THEN ""
    ELSE IF Len(toks) = 1 THEN Head(toks)
    ELSE Head(toks) \o " " \o JoinTokens(Tail(toks))

Last(toks) == toks[Len(toks)]

\* if (cond) answers.k = v
PutIf(cond, m, k, v) == IF cond THEN Put(m, k, v) ELSE m

\* the body of the loop of parseOcrText for one line: the eight fields in turn
ParseOcrLine(answers, toks) ==
    PutIf(HasNumberAfter(toks, "bmi"),
      PutIf(LineIncludes(toks, {"stress"}),
        PutIf(HasNumberAfter(toks, "sleep"),
          PutIf(LineIncludes(toks, {"alcohol", "drinking"}),
            PutIf(LineIncludes(toks, {"diet", "eating", "food"}),
              PutIf(LineIncludes(toks, {"exercise", "activity", "workout"}),
                PutIf(LineIncludes(toks, {"smoker", "smoking"}),
                  PutIf(HasNumberAfter(toks, "age"),
                        answers, "age", NumberAfter(toks, "age")),
                  "smoker", normalizeBoolean(Str(Last(toks)))),
                "exercise", normalizeExercise(Str(Last(toks)))),
              "diet", JsOr(normalizeDiet(Str(JoinTokens(Tail(toks)))),
                           normalizeDiet(Str(Last(toks))))),
            "alcohol", Str(toLowerCase(Last(toks)))),
          "sleep", NumberAfter(toks, "sleep")),
        "stress", Str(toLowerCase(Last(toks)))),
      "bmi", NumberAfter(toks, "bmi"))

RECURSIVE ParseOcrLines(_, _)
ParseOcrLines(answers, lines) ==
    IF lines = <<>> THEN answers
    ELSE ParseOcrLines(ParseOcrLine(answers, Head(lines).toks), Tail(lines))

\* parseOcrText: text.split is not a function unless text is a string
parseOcrText(text) ==
    IF text.t # "string" THEN Throw("TypeError: text.split is not a function")
    ELSE Ok(ParseOcrLines(EmptyMap, text.lines))

OcrPenalty == 10
MissingCorePenalty == 5
NullPenalty == 2

\* calculateConfidence taking a quarter, not a twentieth, for a missing core field
calculateConfidenceSteep(answers, ocr) ==
    LET coreFieldsPresent == Cardinality({f \in Range(CORE_FIELDS) : ~IsNullish(Get(answers, f))})
        nullCount == Cardinality({f \in DOMAIN answers : answers[f] = Null})
    IN Max(0, Min(100, 100 - (IF ocr THEN OcrPenalty ELSE 0)
                           - (Len(CORE_FIELDS) - coreFieldsPresent) * 5 * MissingCorePenalty
                           - nullCount * NullPenalty))

\* calculateConfidence without the deduction for OCR input
calculateConfidenceFlat(answers, ocr) ==
    LET coreFieldsPresent == Cardinality({f \in Range(CORE_FIELDS) : ~IsNullish(Get(answers, f))})
        nullCount == Cardinality({f \in DOMAIN answers : answers[f] = Null})
    IN Max(0, Min(100, 100 - (Len(CORE_FIELDS) - coreFieldsPresent) * MissingCorePenalty
                           - nullCount * NullPenalty))

\* in hundredths
calculateConfidence(answers, ocr) ==
    LET coreFieldsPresent == Cardinality({f \in Range(CORE_FIELDS) : ~IsNullish(Get(answers, f))})
        nullCount == Cardinality({f \in DOMAIN answers : answers[f] = Null})
    IN Max(0, Min(100, 100 - (IF ocr THEN OcrPenalty ELSE 0)
                           - (Len(CORE_FIELDS) - coreFieldsPresent) * MissingCorePenalty
                           - nullCount * NullPenalty))

getMissingFields(answers) == SelectSeq(CORE_FIELDS, LAMBDA f : IsNullish(Get(answers, f)))

\* parseSurvey with a catch block that hands the parser's exception on
ParseResultRethrown(parsed, ocr) ==
    IF ~parsed.ok THEN parsed
    ELSE [answers |-> parsed.v, missing_fields |-> getMissingFields(parsed.v),
          confidence |-> calculateConfidence(parsed.v, ocr), error |-> Undef,
          corrections |-> Undef]

\* the result of parseSurvey once the parser has returned or thrown
ParseResult(parsed, ocr) ==
    IF ~parsed.ok
    THEN [answers |-> EmptyMap, missing_fields |-> CORE_FIELDS, confidence |-> 0,
          error |-> Str("Failed to parse input: " \o parsed.v), corrections |-> Undef]
    ELSE [answers |-> parsed.v, missing_fields |-> getMissingFields(parsed.v),
          confidence |-> calculateConfidence(parsed.v, ocr), error |-> Undef,
          corrections |-> Undef]

\* try { parseJsonInput } catch { parseOcrText }
OrElseOcr(parsed, in) == IF parsed.ok THEN parsed ELSE parseOcrText(in)

parseSurvey(in, ocr) ==
    ParseResult(IF ocr THEN parseOcrText(in)
                ELSE IF in.t = "string" THEN OrElseOcr(parseJsonInput(in), in)
                ELSE parseJsonInput(in),
                ocr)

----------------------------------------------------------------------------
(* services/guardrails.js *)

MIN_CONFIDENCE == 30
MAX_MISSING_PERCENTAGE == 50
AGE_MIN == 0
AGE_MAX == 150
BMI_MIN == 10
BMI_MAX == 100
SLEEP_MIN == 0
SLEEP_MAX == 24

\* x < n and x > n for a number n: null converts to 0, undefined and NaN compare false
JsLess(x, n) ==
    CASE x.t = "number" -> x.v < n
      [] x.t = "null" -> 0 < n
      [] x.t = "string" /\ x.v \in DOMAIN LeadingDigits /\ x.v # "5food" -> LeadingDigits[x.v] < n
      [] OTHER -> FALSE

JsGreater(x, n) ==
    CASE x.t = "number" -> x.v > n
      [] x.t = "null" -> 0 > n
      [] x.t = "string" /\ x.v \in DOMAIN LeadingDigits /\ x.v # "5food" -> LeadingDigits[x.v] > n
      [] OTHER -> FALSE

generateWarnings(pr) ==
    (IF Len(pr.missing_fields) > 0
     THEN <<[type |-> "missing_fields", field |-> Undef]>> ELSE <<>>)
    \o (IF pr.confidence < 80
        THEN <<[type |-> "low_confidence", field |-> Undef]>> ELSE <<>>)
    \o (IF Get(pr.answers, "age") # Undef
           /\ (JsLess(Get(pr.answers, "age"), 18) \/ JsGreater(Get(pr.answers, "age"), 100))
        THEN <<[type |-> "unusual_value", field |-> Str("age")]>> ELSE <<>>)
    \o (IF Get(pr.answers, "bmi") # Undef
           /\ (JsLess(Get(pr.answers, "bmi"), 15) \/ JsGreater(Get(pr.answers, "bmi"), 50))
        THEN <<[type |-> "unusual_value", field |-> Str("bmi")]>> ELSE <<>>)

Invalid(status, reason) ==
    [isValid |-> FALSE, status |-> status, reason |-> reason,
     missing_fields |-> Undef, warnings |-> <<>>]

\* checkProfileCompleteness failing from half of the core fields on (>= for >)
checkProfileCompletenessFromHalf(pr) ==
    IF Truthy(pr.error) THEN Invalid("parse_error", pr.error.v)
    ELSE IF pr.confidence < MIN_CONFIDENCE
    THEN Invalid("low_confidence", "Confidence too low. Cannot reliably process input.")
    ELSE IF Len(pr.missing_fields) * 100 >= MAX_MISSING_PERCENTAGE * Len(CORE_FIELDS)
    THEN [Invalid("incomplete_profile", ">50% fields missing")
            EXCEPT !.missing_fields = Arr(pr.missing_fields)]
    ELSE IF {k \in DOMAIN pr.answers : ~IsNullish(pr.answers[k])} = {}
    THEN Invalid("no_data", "No valid survey data found")
    ELSE [isValid |-> TRUE, status |-> "ok", reason |-> "", missing_fields |-> Undef,
          warnings |-> generateWarnings(pr)]

checkProfileCompleteness(pr) ==
    IF Truthy(pr.error) THEN Invalid("parse_error", pr.error.v)
    ELSE IF pr.confidence < MIN_CONFIDENCE
    THEN Invalid("low_confidence", "Confidence too low. Cannot reliably process input.")
    ELSE IF Len(pr.missing_fields) * 100 > MAX_MISSING_PERCENTAGE * Len(CORE_FIELDS)
    THEN [Invalid("incomplete_profile", ">50% fields missing")
            EXCEPT !.missing_fields = Arr(pr.missing_fields)]
    ELSE IF {k \in DOMAIN pr.answers : ~IsNullish(pr.answers[k])} = {}
    THEN Invalid("no_data", "No valid survey data found")
    ELSE [isValid |-> TRUE, status |-> "ok", reason |-> "", missing_fields |-> Undef,
          warnings |-> generateWarnings(pr)]

\* validateInput without the Array.isArray test on the empty-object branch
validateInputArraysAsObjects(in) ==
    IF IsNullish(in) THEN Ok(Invalid("invalid_input", "Input is null or undefined"))
    ELSE IF in.t = "string" /\ in.form = "blank" THEN Ok(Invalid("empty_input", "Input is empty"))
    ELSE IF in.t = "string" /\ StartsWithBrace(in) /\ ~JsonParse(in).ok
    THEN Ok(Invalid("invalid_json", "Invalid JSON format"))
    ELSE IF in.t = "proxy" THEN Throw("ownKeys trap threw")
    ELSE IF in.t \in {"object", "array"} /\ DOMAIN in.v = {}
    THEN Ok(Invalid("empty_input", "Input object is empty"))
    ELSE IF in.t = "array"
    THEN Ok(Invalid("invalid_input", "Input cannot be an array. Expected object or string."))
    ELSE Ok([isValid |-> TRUE, status |-> "", reason |-> "", missing_fields |-> Undef,
             warnings |-> <<>>])

validateInput(in) ==
    IF IsNullish(in) THEN Ok(Invalid("invalid_input", "Input is null or undefined"))
    ELSE IF in.t = "string" /\ in.form = "blank" THEN Ok(Invalid("empty_input", "Input is empty"))
    ELSE IF in.t = "string" /\ StartsWithBrace(in) /\ ~JsonParse(in).ok
    THEN Ok(Invalid("invalid_json", "Invalid JSON format"))
    ELSE IF in.t = "proxy" THEN Throw("ownKeys trap threw")
    ELSE IF in.t = "object" /\ DOMAIN in.v = {}
    THEN Ok(Invalid("empty_input", "Input object is empty"))
    ELSE IF in.t = "array"
    THEN Ok(Invalid("invalid_input", "Input cannot be an array. Expected object or string."))
    ELSE Ok([isValid |-> TRUE, status |-> "", reason |-> "", missing_fields |-> Undef,
             warnings |-> <<>>])

Correction(field, action, original) ==
    [field |-> field, action |-> action, original |-> original]

\* a variant of CoerceAndClamp that leaves values below the minimum alone
CoerceAndClampAbove(field, original, lo, hi) ==
    IF IsNullish(original) \/ original = NaN THEN [v |-> original, c |-> <<>>]
    ELSE IF original.t # "number" THEN [v |-> Null, c |-> <<>>]
    ELSE IF original.v > hi
    THEN [v |-> Num(hi), c |-> <<Correction(field, "clamped_to_max", original)>>]
    ELSE [v |-> original, c |-> <<>>]

\* the coercion and clamping of one numeric field (age, bmi)
CoerceAndClamp(field, original, lo, hi) ==
    IF IsNullish(original) THEN [v |-> original, c |-> <<>>]
    \* typeof NaN is 'number' and both comparisons with NaN are false
    ELSE IF original = NaN THEN [v |-> original, c |-> <<>>]
    ELSE LET parsed == IF field = "age" THEN parseInt(original) ELSE parseFloat(original)
             coerced == IF original.t # "number" THEN JsOr(parsed, Null) ELSE original
             c1 == IF original.t # "number" /\ coerced # Null
                   THEN <<Correction(field, "type_conversion", original)>> ELSE <<>>
         IN IF coerced = Null THEN [v |-> Null, c |-> c1]
            ELSE IF coerced.v < lo
            THEN [v |-> Num(lo), c |-> Append(c1, Correction(field, "clamped_to_min", coerced))]
            ELSE IF coerced.v > hi
            THEN [v |-> Num(hi), c |-> Append(c1, Correction(field, "clamped_to_max", coerced))]
            ELSE [v |-> coerced, c |-> c1]

ClampSleep(original) ==
    IF original.t # "number" THEN [v |-> original, c |-> <<>>]
    ELSE IF original.v < SLEEP_MIN
    THEN [v |-> Num(SLEEP_MIN), c |-> <<Correction("sleep", "clamped_to_min", original)>>]
    ELSE IF original.v > SLEEP_MAX
    THEN [v |-> Num(SLEEP_MAX), c |-> <<Correction("sleep", "clamped_to_max", original)>>]
    ELSE [v |-> original, c |-> <<>>]

NormalizeSmoker(original) ==
    IF original.t # "string" THEN [v |-> original, c |-> <<>>]
    ELSE IF toLowerCase(original.v) \in {"yes", "true", "1", "y"}
    THEN [v |-> Bool(TRUE), c |-> <<Correction("smoker", "normalized_to_boolean", original)>>]
    ELSE IF toLowerCase(original.v) \in {"no", "false", "0", "n"}
    THEN [v |-> Bool(FALSE), c |-> <<Correction("smoker", "normalized_to_boolean", original)>>]
    ELSE [v |-> original, c |-> <<>>]

validateAnswerRanges(answers) ==
    LET age == CoerceAndClamp("age", Get(answers, "age"), AGE_MIN, AGE_MAX)
        bmi == CoerceAndClamp("bmi", Get(answers, "bmi"), BMI_MIN, BMI_MAX)
        sleep == ClampSleep(Get(answers, "sleep"))
        smoker == NormalizeSmoker(Get(answers, "smoker"))
        corrections == age.c \o bmi.c \o sleep.c \o smoker.c
    IN [isValid |-> corrections = <<>>,
        correctedAnswers |->
            [f \in DOMAIN answers |->
                CASE f = "age" -> age.v
                  [] f = "bmi" -> bmi.v
                  [] f = "sleep" -> sleep.v
                  [] f = "smoker" -> smoker.v
                  [] OTHER -> answers[f]],
        corrections |-> corrections]

MIN_OCR_LENGTH == 10

\* the artifact patterns are not modelled: the sample texts are ASCII without runs
validateOcrText(text) ==
    IF text.t # "string" \/ text.form = "blank" THEN [isValid |-> FALSE, warnings |-> <<>>]
    ELSE IF text.len < MIN_OCR_LENGTH THEN [isValid |-> FALSE, warnings |-> <<>>]
    ELSE [isValid |-> TRUE,
          warnings |->
              IF \E i \in DOMAIN text.lines :
                    LineIncludes(text.lines[i].toks,
                                 {"age", "smoker", "smoking", "exercise", "diet", "sleep", "stress"})
              THEN <<>> ELSE <<"no_survey_keywords">>]

----------------------------------------------------------------------------
(* services/factorExtractor.js *)

\* the rules in declaration order; weights in hundredths
FACTOR_RULES ==
    <<[id |-> "smoking", label |-> "smoking", weight |-> 100],
      [id |-> "poor_diet", label |-> "poor diet", weight |-> 90],
      [id |-> "low_exercise", label |-> "low exercise", weight |-> 85],
      [id |-> "excessive_alcohol", label |-> "excessive alcohol", weight |-> 80],
      [id |-> "poor_sleep", label |-> "poor sleep", weight |-> 70],
      [id |-> "high_stress", label |-> "high stress", weight |-> 75],
      [id |-> "obesity", label |-> "obesity", weight |-> 85],
      [id |-> "overweight", label |-> "overweight", weight |-> 60],
      [id |-> "advanced_age", label |-> "advanced age", weight |-> 50],
      [id |-> "middle_age", label |-> "middle age", weight |-> 30]>>

\* answers.f?.toLowerCase() is one of the words; a value that is neither a
\* string nor nullish makes the rule throw, and the rule is skipped
LowerIn(x, words) == x.t = "string" /\ toLowerCase(x.v) \in words

\* the rule checks with no upper limit on overweight and on middle age
RuleCheckOpen(id, answers) ==
    CASE id = "smoking" -> Get(answers, "smoker") = Bool(TRUE)
      [] id = "poor_diet" ->
            LowerIn(Get(answers, "diet"), {"high sugar", "junk", "fast food", "unhealthy"})
      [] id = "low_exercise" ->
            LowerIn(Get(answers, "exercise"), {"rarely", "never", "sedentary", "none"})
      [] id = "excessive_alcohol" ->
            LowerIn(Get(answers, "alcohol"), {"heavy", "frequent", "daily"})
      [] id = "poor_sleep" ->
            IF Get(answers, "sleep").t = "number"
            THEN Get(answers, "sleep").v < 6 \/ Get(answers, "sleep").v > 9
            ELSE LowerIn(Get(answers, "sleep"), {"poor", "bad", "irregular"})
      [] id = "high_stress" -> LowerIn(Get(answers, "stress"), {"high", "severe", "chronic"})
      [] id = "obesity" -> Get(answers, "bmi").t = "number" /\ Get(answers, "bmi").v >= 30
      [] id = "overweight" -> Get(answers, "bmi").t = "number" /\ Get(answers, "bmi").v >= 25
      [] id = "advanced_age" -> Get(answers, "age").t = "number" /\ Get(answers, "age").v >= 60
      [] id = "middle_age" -> Get(answers, "age").t = "number" /\ Get(answers, "age").v >= 40

RuleCheck(id, answers) ==
    CASE id = "smoking" -> Get(answers, "smoker") = Bool(TRUE)
      [] id = "poor_diet" ->
            LowerIn(Get(answers, "diet"), {"high sugar", "junk", "fast food", "unhealthy"})
      [] id = "low_exercise" ->
            LowerIn(Get(answers, "exercise"), {"rarely", "never", "sedentary", "none"})
      [] id = "excessive_alcohol" ->
            LowerIn(Get(answers, "alcohol"), {"heavy", "frequent", "daily"})
      [] id = "poor_sleep" ->
            IF Get(answers, "sleep").t = "number"
            THEN Get(answers, "sleep").v < 6 \/ Get(answers, "sleep").v > 9
            ELSE LowerIn(Get(answers, "sleep"), {"poor", "bad", "irregular"})
      [] id = "high_stress" -> LowerIn(Get(answers, "stress"), {"high", "severe", "chronic"})
      [] id = "obesity" -> Get(answers, "bmi").t = "number" /\ Get(answers, "bmi").v >= 30
      [] id = "overweight" ->
            /\ Get(answers, "bmi").t = "number"
            /\ Get(answers, "bmi").v >= 25 /\ Get(answers, "bmi").v < 30
      [] id = "advanced_age" -> Get(answers, "age").t = "number" /\ Get(answers, "age").v >= 60
      [] id = "middle_age" ->
            /\ Get(answers, "age").t = "number"
            /\ Get(answers, "age").v >= 40 /\ Get(answers, "age").v < 60

\* a sort that leaves elements with equal keys in reverse order
SortTiesReversed(seq, keys) ==
    LET pos(i) == 1 + Cardinality({j \in DOMAIN seq :
                        \/ keys[j] < keys[i]
                        \/ (keys[j] = keys[i] /\ j > i)})
    IN [p \in DOMAIN seq |-> seq[CHOOSE i \in DOMAIN seq : pos(i) = p]]

\* Array.prototype.sort((a, b) => key(a) - key(b)): ascending by key, and stable:
\* an element moves behind those with a smaller key and those with an equal key
\* that came before it
StableSortBy(seq, keys) ==
    LET pos(i) == 1 + Cardinality({j \in DOMAIN seq :
                        \/ keys[j] < keys[i]
                        \/ (keys[j] = keys[i] /\ j < i)})
    IN [p \in DOMAIN seq |-> seq[CHOOSE i \in DOMAIN seq : pos(i) = p]]

\* calculateFactorConfidence adding where the code deducts, and returning the sum unclamped
calculateFactorConfidenceRaised(answers, extractedFactors) ==
    LET missing == Cardinality({f \in {"smoker", "diet", "exercise"} : IsNullish(Get(answers, f))})
        sparse == IF extractedFactors = <<>> /\ Cardinality(DOMAIN answers) < 3 THEN 20 ELSE 0
    IN 100 + 10 * missing + sparse

calculateFactorConfidence(answers, extractedFactors) ==
    LET missing == Cardinality({f \in {"smoker", "diet", "exercise"} : IsNullish(Get(answers, f))})
        sparse == IF extractedFactors = <<>> /\ Cardinality(DOMAIN answers) < 3 THEN 20 ELSE 0
    IN Max(0, Min(100, 100 - 10 * missing - sparse))

extractFactors(answers) ==
    LET matched == SelectSeq(FACTOR_RULES, LAMBDA r : RuleCheck(r.id, answers))
        factorDetails == StableSortBy(matched, [i \in DOMAIN matched |-> 0 - matched[i].weight])
        factors == [i \in DOMAIN matched |-> matched[i].label]
    IN [factors |-> [i \in DOMAIN factorDetails |-> factorDetails[i].label],
        factor_details |-> factorDetails,
        confidence |-> calculateFactorConfidence(answers, factors)]

----------------------------------------------------------------------------
(* services/riskClassifier.js *)

\* the score table with middle age left unscored
FactorScoresMiddleAgeUnscored ==
    [f \in {"smoking", "poor diet", "low exercise", "excessive alcohol", "poor sleep",
            "high stress", "obesity", "overweight", "advanced age", "middle age"} |->
        CASE f = "smoking" -> 25
          [] f = "poor diet" -> 18
          [] f = "low exercise" -> 15
          [] f = "excessive alcohol" -> 20
          [] f = "poor sleep" -> 10
          [] f = "high stress" -> 12
          [] f = "obesity" -> 20
          [] f = "overweight" -> 10
          [] f = "advanced age" -> 8
          [] f = "middle age" -> 0]

FACTOR_SCORES ==
    [f \in {"smoking", "poor diet", "low exercise", "excessive alcohol", "poor sleep",
            "high stress", "obesity", "overweight", "advanced age", "middle age"} |->
        CASE f = "smoking" -> 25
          [] f = "poor diet" -> 18
          [] f = "low exercise" -> 15
          [] f = "excessive alcohol" -> 20
          [] f = "poor sleep" -> 10
          [] f = "high stress" -> 12
          [] f = "obesity" -> 20
          [] f = "overweight" -> 10
          [] f = "advanced age" -> 8
          [] f = "middle age" -> 4]

\* Property names every object literal inherits from Object.prototype: a lookup
\* table[name] with one of these names yields a function, not undefined.
ObjectPrototypeNames == {"constructor", "toString", "valueOf", "hasOwnProperty"}

\* FACTOR_SCORES[factor] || 0
FactorScoreLookup(factor) ==
    IF factor \in DOMAIN FACTOR_SCORES THEN Num(FACTOR_SCORES[factor])
    ELSE IF factor \in ObjectPrototypeNames THEN [t |-> "function"]
    ELSE Num(0)

\* score += factorScore: number + number adds; anything else concatenates strings
JsPlus(a, b) ==
    IF a.t = "number" /\ b.t = "number" THEN Num(a.v + b.v)
    ELSE [t |-> "string", v |-> "0function Object() { [native code] }"]

getAgeBaseRisk(age) ==
    IF IsNullish(age) THEN 0
    ELSE IF age.t # "number" THEN 25
    ELSE IF age.v < 30 THEN 0
    ELSE IF age.v < 40 THEN 5
    ELSE IF age.v < 50 THEN 10
    ELSE IF age.v < 60 THEN 15
    ELSE IF age.v < 70 THEN 20
    ELSE 25

\* one rationale string: the template and the value interpolated into it
Text(tpl) == [tpl |-> tpl, arg |-> Undef]
TextWith(tpl, arg) == [tpl |-> tpl, arg |-> arg]

\* a rationale with one entry per factor, middle age included
RationaleForEvery(factor, answers) == <<Text(factor)>>

RationaleFor(factor, answers) ==
    CASE factor = "smoking" -> <<Text("smoking")>>
      [] factor = "poor diet" ->
            IF Truthy(Get(answers, "diet"))
            THEN <<TextWith("${diet} diet", Get(answers, "diet"))>>
            ELSE <<Text("poor dietary habits")>>
      [] factor = "low exercise" ->
            IF Get(answers, "exercise") = Str("rarely")
            THEN <<Text("low physical activity")>> ELSE <<Text("sedentary lifestyle")>>
      [] factor = "excessive alcohol" -> <<Text("high alcohol consumption")>>
      [] factor = "poor sleep" ->
            IF Get(answers, "sleep").t = "number"
            THEN <<TextWith("inadequate sleep (${sleep} hours)", Get(answers, "sleep"))>>
            ELSE <<Text("poor sleep quality")>>
      [] factor = "high stress" -> <<Text("chronic stress")>>
      [] factor = "obesity" ->
            IF Truthy(Get(answers, "bmi"))
            THEN <<TextWith("obesity (BMI: ${bmi})", Get(answers, "bmi"))>>
            ELSE <<Text("obesity")>>
      [] factor = "overweight" ->
            IF Truthy(Get(answers, "bmi"))
            THEN <<TextWith("overweight (BMI: ${bmi})", Get(answers, "bmi"))>>
            ELSE <<Text("overweight")>>
      [] factor = "advanced age" ->
            <<TextWith("age factor (${age} years)", Get(answers, "age"))>>
      [] factor = "middle age" -> <<>>
      [] OTHER -> <<Text(factor)>>

RECURSIVE generateRationale(_, _)
generateRationale(factors, answers) ==
    IF factors = <<>> THEN <<>>
    ELSE RationaleFor(Head(factors), answers) \o generateRationale(Tail(factors), answers)

\* getRiskLevel with inclusive upper limits
getRiskLevelLe(score) ==
    IF score.t # "number" THEN "very high"
    ELSE IF score.v <= 25 THEN "low"
    ELSE IF score.v <= 50 THEN "moderate"
    ELSE IF score.v <= 75 THEN "high"
    ELSE "very high"

\* every comparison with NaN is false, so NaN falls through to the last return
getRiskLevel(score) ==
    IF score.t # "number" THEN "very high"
    ELSE IF score.v < 25 THEN "low"
    ELSE IF score.v < 50 THEN "moderate"
    ELSE IF score.v < 75 THEN "high"
    ELSE "very high"

RECURSIVE AddFactorScores(_, _)
AddFactorScores(score, factors) ==
    IF factors = <<>> THEN score
    ELSE AddFactorScores(JsPlus(score, FactorScoreLookup(Head(factors))), Tail(factors))

\* Math.min(100, score): NaN when score is not numeric
CapScore(score) == IF score.t = "number" THEN Num(Min(100, score.v)) ELSE NaN

classifyRisk(factors, answers) ==
    LET score == CapScore(AddFactorScores(Num(getAgeBaseRisk(Get(answers, "age"))), factors))
    IN [risk_level |-> getRiskLevel(score),
        score |-> score,   \* Math.round of an integer or of NaN is itself
        rationale |-> generateRationale(factors, answers)]

----------------------------------------------------------------------------
(* services/recommendationEngine.js *)

Rec(primary, details, priority, icon) ==
    [primary |-> Str(primary), details |-> Str(details), priority |-> Num(priority),
     icon |-> Str(icon), factor |-> Undef]

RECOMMENDATIONS ==
    [f \in {"smoking", "poor diet", "low exercise", "excessive alcohol", "poor sleep",
            "high stress", "obesity", "overweight", "advanced age"} |->
        CASE f = "smoking" ->
                Rec("Quit smoking", "Consider nicotine replacement therapy or consult a healthcare provider for smoking cessation programs", 1, "cigarette-off")
          [] f = "poor diet" ->
                Rec("Improve your diet", "Reduce sugar intake, increase vegetables and whole grains, limit processed foods", 2, "apple")
          [] f = "low exercise" ->
                Rec("Increase physical activity", "Start with 30 minutes of walking daily, gradually increase intensity", 3, "footprints")
          [] f = "excessive alcohol" ->
                Rec("Reduce alcohol consumption", "Limit to moderate drinking or consider abstaining. Seek support if needed", 2, "wine-off")
          [] f = "poor sleep" ->
                Rec("Improve sleep habits", "Aim for 7-8 hours of quality sleep. Maintain consistent sleep schedule", 4, "moon")
          [] f = "high stress" ->
                Rec("Manage stress levels", "Practice relaxation techniques, consider meditation or yoga, take regular breaks", 4, "brain")
          [] f = "obesity" ->
                Rec("Work towards healthy weight", "Consult healthcare provider for personalized weight management plan", 2, "scale")
          [] f = "overweight" ->
                Rec("Consider weight management", "Focus on balanced diet and regular exercise for gradual weight loss", 5, "scale")
          [] f = "advanced age" ->
                Rec("Regular health checkups", "Schedule regular screenings and preventive care appointments", 6, "stethoscope")]

GENERAL_RECOMMENDATIONS ==
    <<Rec("Stay hydrated", "Drink at least 8 glasses of water daily", 7, "droplet"),
      Rec("Regular health checkups", "Schedule annual wellness visits with your healthcare provider", 8, "calendar-check")>>

TOP_RECOMMENDATIONS == 5

\* {...rec, factor} for a name RECOMMENDATIONS inherits from Object.prototype: the
\* value is a function, which is truthy and has no own enumerable property
InheritedRecommendation ==
    [primary |-> Undef, details |-> Undef, priority |-> Undef, icon |-> Undef, factor |-> Undef]

\* the loop over the factors: one record {...rec, factor} per factor with an entry
RECURSIVE FactorRecommendations(_)
FactorRecommendations(factors) ==
    IF factors = <<>> THEN <<>>
    ELSE (IF Head(factors) \in DOMAIN RECOMMENDATIONS
          THEN <<[RECOMMENDATIONS[Head(factors)] EXCEPT !.factor = Str(Head(factors))]>>
          ELSE IF Head(factors) \in ObjectPrototypeNames
          THEN <<[InheritedRecommendation EXCEPT !.factor = Str(Head(factors))]>>
          ELSE <<>>)
         \o FactorRecommendations(Tail(factors))

\* every order the elements of a list can be left in
Orderings(seq) ==
    {[i \in DOMAIN seq |-> seq[p[i]]] :
        p \in {q \in [DOMAIN seq -> DOMAIN seq] : \A i, j \in DOMAIN seq : q[i] = q[j] => i = j}}

\* detailedRecommendations.sort((a, b) => a.priority - b.priority): a stable sort when
\* every priority is a number; with an undefined priority the comparator yields NaN,
\* is not consistent, and the order is implementation-defined
SortByPriority(matched) ==
    IF \A i \in DOMAIN matched : matched[i].priority.t = "number"
    THEN {StableSortBy(matched, [i \in DOMAIN matched |-> matched[i].priority.v])}
    ELSE Orderings(matched)

\* the rest of generateRecommendations, given the order the sort has left
RecommendationsAfterSort(matched, sorted, riskLevel) ==
    LET recommendations == [i \in DOMAIN matched |-> matched[i].primary]
        general ==
            IF riskLevel \in {"high", "very high"}
            THEN SelectSeq(GENERAL_RECOMMENDATIONS,
                           LAMBDA g : g.primary \notin Range(recommendations))
            ELSE <<>>
        detailed == sorted \o general
        top == SubSeq(detailed, 1, Min(TOP_RECOMMENDATIONS, Len(detailed)))
    IN [recommendations |-> [i \in DOMAIN top |-> top[i].primary],
        detailed_recommendations |-> top]

\* every result generateRecommendations can return
GenerateRecommendationsResults(factors, riskLevel) ==
    {RecommendationsAfterSort(FactorRecommendations(factors), sorted, riskLevel) :
        sorted \in SortByPriority(FactorRecommendations(factors))}

\* the result on the factor lists of extractFactors, whose labels are own keys of
\* RECOMMENDATIONS or have no entry: the sort is stable and the result unique
RecommendationsStable(matched, riskLevel) ==
    RecommendationsAfterSort(matched,
        StableSortBy(matched, [i \in DOMAIN matched |-> matched[i].priority.v]), riskLevel)

generateRecommendations(factors, riskLevel) ==
    RecommendationsStable(FactorRecommendations(factors), riskLevel)

----------------------------------------------------------------------------
(* services/schemaValidator.js: the response wrappers (timestamps left out) *)

createErrorResponse(status, reason, missing_fields, partial_parse) ==
    [status |-> status, reason |-> reason, missing_fields |-> missing_fields,
     partial_parse |-> partial_parse]

\* a success response that leaves the status of the data as it is
createSuccessResponseUnmarked(d) == d

\* every field the analysisResponse schema requires is present in the data the
\* callers pass, so ensureSchemaCompliance adds none
createSuccessResponse(d) == [d EXCEPT !.status = "ok"]

\* validateProperty on a number property with min and max (hundredths for the
\* confidences); NaN passes the type test and fails neither comparison
NumberErrors(name, value, min, max) ==
    IF value.t # "number" THEN {}
    ELSE (IF value.v < min THEN {name \o " is below minimum"} ELSE {})
            \cup (IF value.v > max THEN {name \o " exceeds maximum"} ELSE {})

\* validateProperty on a string property with an enum
EnumErrors(name, value, allowed) ==
    IF value \in allowed THEN {} ELSE {name \o " not in allowed values"}

\* the result of validateSchema from the errors collected; the stage results are
\* objects holding every required field with the type its schema names, so the
\* required-field loop and the type tests add no error and nothing throws
Validation(errors) == [isValid |-> errors = {}, errors |-> errors]

\* validateSchema(parseResult, SCHEMAS.parseResponse)
validateParseResponse(pr) == Validation(NumberErrors("confidence", Num(pr.confidence), 0, 100))

\* validateSchema(factorResult, SCHEMAS.factorResponse)
validateFactorResponse(fr) == Validation(NumberErrors("confidence", Num(fr.confidence), 0, 100))

\* validateSchema(riskResult, SCHEMAS.riskResponse)
validateRiskResponse(rr) ==
    Validation(EnumErrors("risk_level", rr.risk_level, {"low", "moderate", "high", "very high"})
                \cup NumberErrors("score", rr.score, 0, 100))

----------------------------------------------------------------------------
(* services/pipeline.js: runAnalysisPipeline *)

StepSuccess(step) == [step |-> step, success |-> TRUE, error |-> Undef]
\* StepResult.failure passing the flag of StepResult.success
StepFailureMarkedSuccess(step, err) == [step |-> step, success |-> TRUE, error |-> Str(err)]
StepFailure(step, err) == [step |-> step, success |-> FALSE, error |-> Str(err)]

\* const { isOcr = false, validateSchemas = true, stopOnWarning = false } = options,
\* options = {} when the argument is undefined; null cannot be destructured
Enter ==
    /\ pc = "call"
    /\ IF options = Null
       THEN pc' = "rejected" /\ UNCHANGED isOcr
       ELSE /\ isOcr' = (options.t = "object" /\ Truthy(Get(options.v, "isOcr")))
            /\ pc' = "input_validation"
    /\ UNCHANGED <<input, options, origin, body, steps, success, data, error, parseResult,
                   warnings, factorResult, riskResult, analyzeRes, legacyRes, rvars>>

\* the catch block of runAnalysisPipeline
Caught(msg) ==
    /\ error' = createErrorResponse("pipeline_error", msg, Undef, Undef)
    /\ steps' = Append(steps, StepFailure("unknown", msg))
    /\ pc' = "returned"

\* lines 49-55, with the result of validateInput at hand
AfterValidation(inputValidation) ==
    IF ~inputValidation.ok THEN Caught(inputValidation.v)
    ELSE IF ~inputValidation.v.isValid
    THEN /\ steps' = Append(steps, StepFailure("input_validation", inputValidation.v.reason))
         /\ error' = createErrorResponse(inputValidation.v.status,
                                         inputValidation.v.reason, Undef, Undef)
         /\ pc' = "returned"
    ELSE /\ steps' = Append(steps, StepSuccess("input_validation"))
         /\ pc' = "parse"
         /\ UNCHANGED error

StepInputValidation ==
    /\ pc = "input_validation"
    /\ AfterValidation(validateInput(input))
    /\ UNCHANGED <<input, options, origin, body, isOcr, success, data, parseResult, warnings,
                   factorResult, riskResult, analyzeRes, legacyRes, rvars>>

\* parseResult after the range correction of lines 86-90
Corrected(pr) ==
    LET rangeValidation == validateAnswerRanges(pr.answers)
    IN IF ~rangeValidation.isValid
       THEN [pr EXCEPT !.answers = rangeValidation.correctedAnswers,
                       !.corrections = Arr(rangeValidation.corrections)]
       ELSE pr

ParseFailure(pr, check) ==
    createErrorResponse(check.status, check.reason,
                        JsOr(check.missing_fields, Arr(pr.missing_fields)),
                        [answers |-> pr.answers, confidence |-> pr.confidence])

\* lines 68-92, with the Parse Result and the completeness check at hand
AfterParse(pr, completenessCheck) ==
    IF ~completenessCheck.isValid
    THEN /\ steps' = Append(steps, StepFailure("parse", completenessCheck.reason))
         /\ error' = ParseFailure(pr, completenessCheck)
         /\ parseResult' = pr
         /\ pc' = "returned"
         /\ UNCHANGED warnings
    ELSE /\ parseResult' = Corrected(pr)
         /\ warnings' = completenessCheck.warnings
         /\ steps' = Append(steps, StepSuccess("parse"))
         /\ pc' = "factors"
         /\ UNCHANGED error

Checked(pr) == AfterParse(pr, checkProfileCompleteness(pr))

StepParse ==
    /\ pc = "parse"
    /\ Checked(parseSurvey(input, isOcr))
    /\ UNCHANGED <<input, options, origin, body, isOcr, success, data, factorResult, riskResult,
                   analyzeRes, legacyRes, rvars>>

StepFactors ==
    /\ pc = "factors"
    /\ factorResult' = extractFactors(parseResult.answers)
    /\ steps' = Append(steps, StepSuccess("factors"))
    /\ pc' = "risk"
    /\ UNCHANGED <<input, options, origin, body, isOcr, success, data, error, parseResult,
                   warnings, riskResult, analyzeRes, legacyRes, rvars>>

StepRisk ==
    /\ pc = "risk"
    /\ riskResult' = classifyRisk(factorResult.factors, parseResult.answers)
    /\ steps' = Append(steps, StepSuccess("risk"))
    /\ pc' = "recommendations"
    /\ UNCHANGED <<input, options, origin, body, isOcr, success, data, error, parseResult,
                   warnings, factorResult, analyzeRes, legacyRes, rvars>>

\* the final data of lines 123-147 and of the legacy handler
AnalysisData(pr, corrections, factorRes, riskRes, recRes, warns, nSteps) ==
    [status |-> "",
     answers |-> pr.answers,
     missing_fields |-> pr.missing_fields,
     parse_confidence |-> pr.confidence,
     corrections |-> corrections,
     factors |-> factorRes.factors,
     factor_confidence |-> factorRes.confidence,
     factor_details |-> factorRes.factor_details,
     risk_level |-> riskRes.risk_level,
     score |-> riskRes.score,
     rationale |-> riskRes.rationale,
     recommendations |-> recRes.recommendations,
     detailed_recommendations |-> recRes.detailed_recommendations,
     warnings |-> warns,
     pipeline_steps |-> nSteps]

StepRecommendations ==
    /\ pc = "recommendations"
    /\ LET recResult == generateRecommendations(factorResult.factors, riskResult.risk_level)
       IN /\ steps' = Append(steps, StepSuccess("recommendations"))
          /\ data' = createSuccessResponse(
                        AnalysisData(parseResult,
                                     JsOr(parseResult.corrections, Arr(<<>>)).v,
                                     factorResult, riskResult, recResult, warnings,
                                     Len(steps')))
    /\ success' = TRUE
    /\ pc' = "returned"
    /\ UNCHANGED <<input, options, origin, body, isOcr, error, parseResult, warnings,
                   factorResult, riskResult, analyzeRes, legacyRes, rvars>>

----------------------------------------------------------------------------
(* server.js: POST /api/analyze and POST /api/analyze/legacy *)

Response(code, payload) == [code |-> code, body |-> payload]

\* const { input, isOcr = false, options = {} } = req.body, and the call of the
\* pipeline; options.validateSchemas of a null options throws, and the global
\* error handler answers
AnalyzeReceive ==
    /\ origin = "http" /\ pc = "request"
    /\ IF body.options = Null
       THEN /\ analyzeRes' = Response(500, createErrorResponse("internal_error",
                                           "Internal server error", Undef, Undef))
            /\ pc' = "responded"
            /\ UNCHANGED <<input, options>>
       ELSE /\ input' = body.input
            /\ options' =
                 LET o == IF body.options = Undef THEN EmptyMap ELSE body.options.v
                 IN Obj([k \in {"isOcr", "validateSchemas", "stopOnWarning"} |->
                           CASE k = "isOcr" ->
                                   IF body.isOcr = Undef THEN Bool(FALSE) ELSE body.isOcr
                             [] k = "validateSchemas" ->
                                   Bool(Get(o, "validateSchemas") # Bool(FALSE))
                             [] k = "stopOnWarning" ->
                                   JsOr(Get(o, "stopOnWarning"), Bool(FALSE))])
            /\ pc' = "call"
            /\ UNCHANGED analyzeRes
    /\ UNCHANGED <<origin, body, isOcr, steps, success, data, error, parseResult, warnings,
                   factorResult, riskResult, legacyRes, rvars>>

\* line 70
AnalyzeStatusCode(err) == IF err.status = "invalid_input" THEN 400 ELSE 200

AnalyzeRespond ==
    /\ origin = "http" /\ pc = "returned"
    /\ analyzeRes' = IF ~success THEN Response(AnalyzeStatusCode(error), error)
                     ELSE Response(200, data)
    /\ pc' = "responded"
    /\ UNCHANGED <<input, options, origin, body, isOcr, steps, success, data, error,
                   parseResult, warnings, factorResult, riskResult, legacyRes, rvars>>

LegacySuccess(pr, completenessCheck, answers, corrections, factorRes, riskRes) ==
    Response(200, createSuccessResponse(
        [AnalysisData([pr EXCEPT !.answers = answers], corrections, factorRes, riskRes,
                      generateRecommendations(factorRes.factors, riskRes.risk_level),
                      completenessCheck.warnings, Undef)
            EXCEPT !.factor_details = Undef]))

\* lines 120-145
LegacyAnalysis(pr, completenessCheck, answers, corrections, factorRes) ==
    LegacySuccess(pr, completenessCheck, answers, corrections, factorRes,
                  classifyRisk(factorRes.factors, answers))

\* lines 101-118
LegacyParsed(pr, completenessCheck, rangeValidation) ==
    IF ~completenessCheck.isValid THEN Response(200, ParseFailure(pr, completenessCheck))
    ELSE LegacyAnalysis(pr, completenessCheck, rangeValidation.correctedAnswers,
                        rangeValidation.corrections,
                        extractFactors(rangeValidation.correctedAnswers))

LegacyParse(pr) ==
    LegacyParsed(pr, checkProfileCompleteness(pr), validateAnswerRanges(pr.answers))

\* lines 84-98
LegacyValidated(in, ocr, inputValidation) ==
    IF ~inputValidation.ok
    THEN Response(500, createErrorResponse("internal_error", "Internal server error",
                                           Undef, Undef))
    ELSE IF ~inputValidation.v.isValid
    THEN Response(400, createErrorResponse(inputValidation.v.status,
                                           inputValidation.v.reason, Undef, Undef))
    ELSE IF ocr /\ in.t = "string" /\ ~validateOcrText(in).isValid
    THEN Response(400, createErrorResponse("invalid_ocr",
                                           "OCR text is too short to contain valid survey data",
                                           Undef, Undef))
    ELSE LegacyParse(parseSurvey(in, ocr))

LegacyResponse(b) == LegacyValidated(b.input, Truthy(b.isOcr), validateInput(b.input))

\* the same body posted to the legacy endpoint once the main one has answered
LegacyHandle ==
    /\ origin = "http" /\ pc = "responded" /\ legacyRes = None
    /\ legacyRes' = LegacyResponse(body)
    /\ UNCHANGED <<input, options, origin, body, pc, isOcr, steps, success, data, error,
                   parseResult, warnings, factorResult, riskResult, analyzeRes, rvars>>

----------------------------------------------------------------------------
(* The inputs *)

AgeRaw == {Undef, Num(0), Num(25), Num(42), Num(65), Num(200), Str("42"), Str("abc")}
SmokerRaw == {Undef, Bool(TRUE), Bool(FALSE), Str("Yes"), Str("maybe")}
ExerciseRaw == {Undef, Null, Str("Rarely"), Str("regularly")}
DietRaw == {Undef, Str("high sugar"), Str("healthy"), Str("junk food")}

\* the optional fields come in bundles
OptionalRaw ==
    {EmptyMap,
     [f \in {"stress", "sleep"} |-> IF f = "stress" THEN Str("high") ELSE Num(5)],
     [f \in {"alcohol", "stress", "sleep", "bmi"} |->
        CASE f = "alcohol" -> Str("Heavy") [] f = "stress" -> Str("High")
          [] f = "sleep" -> Num(30) [] f = "bmi" -> Num(32)],
     [f \in {"alcohol", "sleep", "bmi"} |->
        CASE f = "alcohol" -> Str("daily") [] f = "sleep" -> Str("poor") [] f = "bmi" -> Num(27)],
     [f \in {"sleep", "bmi"} |-> IF f = "sleep" THEN Null ELSE Str("abc")]}

\* a mapping without the fields whose value is undefined
Defined(m) == [k \in {x \in DOMAIN m : m[x] # Undef} |-> m[k]]

StructuredInputs ==
    {Obj(Defined([f \in Range(CORE_FIELDS) |->
                    CASE f = "age" -> a [] f = "smoker" -> s
                      [] f = "exercise" -> e [] f = "diet" -> d]) @@ opt) :
        a \in AgeRaw, s \in SmokerRaw, e \in ExerciseRaw, d \in DietRaw, opt \in OptionalRaw}

ScenarioA ==
    [f \in {"age", "smoker", "exercise", "diet", "stress", "sleep"} |->
        CASE f = "age" -> Num(42) [] f = "smoker" -> Bool(TRUE) [] f = "exercise" -> Str("rarely")
          [] f = "diet" -> Str("high sugar") [] f = "stress" -> Str("high") [] f = "sleep" -> Num(5)]

TextInputs ==
    {TextInput(<<Line(": ", <<"Age", "42">>), Line(": ", <<"Smoker", "Yes">>),
                 Line(": ", <<"Exercise", "Rarely">>), Line(": ", <<"Diet", "High", "sugar">>)>>),
     TextInput(<<Line(": ", <<"Age", "4">>)>>),
     TextInput(<<Line(" ", <<"age", "5food">>)>>),
     TextInput(<<Line(" ", <<"hello", "world", "foo">>)>>),
     TextInput(<<Line(": ", <<"Smoker", "maybe">>), Line(":", <<"Exercise", "">>),
                 Line(": ", <<"Age", "65">>)>>),
     TextInput(<<Line(": ", <<"Age", "65">>), Line(": ", <<"Smoker", "No">>),
                 Line(": ", <<"BMI", "32">>), Line(": ", <<"Sleep", "5">>),
                 Line(": ", <<"Stress", "High">>), Line(": ", <<"Alcohol", "Heavy">>)>>)}

\* JSON texts: "null", "42" and the text of scenario A
JsonTexts == {JsonInput(Null, 4), JsonInput(Num(42), 2), JsonInput(Obj(ScenarioA), 93)}

\* what a request body can carry as `input` (undefined when the field is absent)
JsonValues ==
    {Undef, Null, ArrayInput, Num(7), Bool(TRUE), BlankInput, BadJsonInput}
    \cup JsonTexts \cup TextInputs \cup StructuredInputs

\* an OCR request carries text or a non-string, not the JSON text of an object
Bodies ==
    {b \in {[input |-> i, isOcr |-> o, options |-> Undef] :
                i \in JsonValues, o \in {Undef, Bool(TRUE)}} :
        ~(b.isOcr = Bool(TRUE) /\ b.input \in JsonTexts)}
    \cup {[input |-> Obj(ScenarioA), isOcr |-> Undef, options |-> op] :
            op \in {Null, Obj([k \in {"validateSchemas", "stopOnWarning"} |->
                                 IF k = "validateSchemas" THEN Bool(FALSE) ELSE Bool(TRUE)])}}

\* what a JavaScript caller can pass to runAnalysisPipeline
DirectInputs ==
    {ProxyInput, Undef, Null, ArrayInput, Num(7), BlankInput, BadJsonInput, Obj(ScenarioA),
     Obj(EmptyMap)} \cup TextInputs
DirectOptions ==
    {Undef, Null, Obj([k \in {"isOcr"} |-> Bool(TRUE)]),
     Obj([k \in {"validateSchemas", "stopOnWarning"} |->
            IF k = "validateSchemas" THEN Bool(FALSE) ELSE Bool(TRUE)])}

----------------------------------------------------------------------------
(* classifyRisk called on its own (POST /api/analyze/risk, runPipelineStep):  *)
(* the factor list is grown one label at a time and classified again.        *)

MaxFactors == 4

\* labels a caller may pass: an inherited name, an unknown label, the ten factors
RiskLabels ==
    <<"constructor", "back pain", "smoking", "poor diet", "low exercise",
      "excessive alcohol", "poor sleep", "high stress", "obesity", "overweight",
      "advanced age", "middle age">>

\* ages around every threshold of getAgeBaseRisk, and an unknown age
RiskAges == {Undef, Null} \cup {Num(a) : a \in {-3, 29, 30, 39, 40, 50, 60, 69, 70}}

LabelIndex(f) == CHOOSE i \in 1..Len(RiskLabels) : RiskLabels[i] = f

IdleRisk == [risk_level |-> "low", score |-> Num(0), rationale |-> <<>>]

RiskCall(f) ==
    /\ Len(rFactors) < MaxFactors
    \* lists are enumerated up to the order of their labels, middle age (the label
    \* without a rationale entry) taking any place
    /\ IF rFactors = <<>> \/ f = "middle age" THEN TRUE
       ELSE IF rFactors[Len(rFactors)] = "middle age" THEN TRUE
       ELSE LabelIndex(rFactors[Len(rFactors)]) <= LabelIndex(f)
    /\ rFactors' = Append(rFactors, f)
    /\ rOut' = classifyRisk(rFactors', rAnswers)
    /\ UNCHANGED <<rAnswers, call, ret, runs, tables, pvars>>

----------------------------------------------------------------------------
(* Specifications *)

\* the state in which runAnalysisPipeline creates pipelineResult
FreshPipeline ==
    /\ isOcr = FALSE
    /\ steps = <<>>
    /\ success = FALSE
    /\ data = Null
    /\ error = Null
    /\ parseResult = None
    /\ warnings = <<>>
    /\ factorResult = None
    /\ riskResult = None
    /\ analyzeRes = None
    /\ legacyRes = None

NoRiskCall == rFactors = <<>> /\ rAnswers = EmptyMap /\ rOut = IdleRisk

NoCall == call = None /\ ret = None

\* a module-level table: its content, and whether it has been written to since the
\* module was loaded
Table(content) == [content |-> content, written |-> FALSE]

\* the module-level tables as the modules define them
ModuleTables ==
    [CORE_FIELDS |-> Table(CORE_FIELDS),
     CONFIG |-> Table([MIN_CONFIDENCE |-> MIN_CONFIDENCE,
                       MAX_MISSING_PERCENTAGE |-> MAX_MISSING_PERCENTAGE,
                       AGE_MIN |-> AGE_MIN, AGE_MAX |-> AGE_MAX, BMI_MIN |-> BMI_MIN,
                       BMI_MAX |-> BMI_MAX, SLEEP_MIN |-> SLEEP_MIN, SLEEP_MAX |-> SLEEP_MAX]),
     FACTOR_RULES |-> Table(FACTOR_RULES),
     FACTOR_SCORES |-> Table(FACTOR_SCORES),
     RECOMMENDATIONS |-> Table(RECOMMENDATIONS),
     GENERAL_RECOMMENDATIONS |-> Table(GENERAL_RECOMMENDATIONS)]

NoInvocations == runs = <<>> /\ tables = ModuleTables

Init ==
    /\ \/ /\ origin = "direct"
          /\ input \in DirectInputs
          /\ options \in DirectOptions
          /\ body = None
          /\ pc = "call"
       \/ /\ origin = "http"
          /\ body \in Bodies
          /\ input = None
          /\ options = None
          /\ pc = "request"
    /\ FreshPipeline
    /\ NoRiskCall
    /\ NoCall
    /\ NoInvocations

Next ==
    \/ AnalyzeReceive
    \/ Enter
    \/ StepInputValidation
    \/ StepParse
    \/ StepFactors
    \/ StepRisk
    \/ StepRecommendations
    \/ AnalyzeRespond
    \/ LegacyHandle

Spec == Init /\ [][Next]_vars

InitRisk ==
    /\ origin = "risk" /\ input = None /\ options = None /\ body = None /\ pc = "idle"
    /\ FreshPipeline
    /\ rFactors = <<>>
    /\ rAnswers \in {Defined([f \in {"age"} |-> a]) : a \in RiskAges}
    /\ rOut = classifyRisk(rFactors, rAnswers)
    /\ NoCall
    /\ NoInvocations

NextRisk == \E f \in Range(RiskLabels) : RiskCall(f)

SpecRisk == InitRisk /\ [][NextRisk]_vars

----------------------------------------------------------------------------
(* validateAnswerRanges called on its own, on the answer mappings a caller   *)
(* may hand to it (pipeline.js passes parseResult.answers, the legacy         *)
(* handler passes parsed.answers).                                            *)

\* no pipeline run and no request is in progress
NoPipeline ==
    /\ origin = "call" /\ input = None /\ options = None /\ body = None /\ pc = "idle"
    /\ FreshPipeline
    /\ NoRiskCall

\* values on both sides of every bound of CONFIG, absent and ill-typed values
RangeAges ==
    {Undef, Null, NaN, Str("abc"), Str("42"), Str("200")}
        \cup {Num(a) : a \in {-5, AGE_MIN, 42, AGE_MAX, AGE_MAX + 1, 200}}
RangeBmis ==
    {Undef, Null, Str("abc"), Str("5")}
        \cup {Num(b) : b \in {BMI_MIN - 1, BMI_MIN, 27, BMI_MAX, BMI_MAX + 1}}
RangeSleeps ==
    {Undef, NaN, Str("poor")}
        \cup {Num(s) : s \in {SLEEP_MIN - 1, SLEEP_MIN, 7, SLEEP_MAX, SLEEP_MAX + 1}}
RangeSmokers ==
    {Undef, Bool(TRUE), Str("Yes"), Str("n"), Str("maybe"), Str("yeah"), Str("never")}

RangeAnswers ==
    {Defined([f \in {"age", "bmi", "sleep", "smoker", "diet"} |->
                CASE f = "age" -> a [] f = "bmi" -> b [] f = "sleep" -> s
                  [] f = "smoker" -> k [] OTHER -> Str("balanced")]) :
        a \in RangeAges, b \in RangeBmis, s \in RangeSleeps, k \in RangeSmokers}

ValidateAnswerRangesCall ==
    /\ call.fn = "validateAnswerRanges"
    /\ ret = None
    /\ ret' = validateAnswerRanges(call.answers)
    /\ UNCHANGED <<call, rFactors, rAnswers, rOut, runs, tables, pvars>>

InitRanges ==
    /\ NoPipeline
    /\ NoInvocations
    /\ call \in {[fn |-> "validateAnswerRanges", answers |-> m] : m \in RangeAnswers}
    /\ ret = None

NextRanges == ValidateAnswerRangesCall

SpecRanges == InitRanges /\ [][NextRanges]_vars

----------------------------------------------------------------------------
(* generateRecommendations called on its own (POST /api/analyze/recommendations): *)
(* the caller chooses the factor list and the risk level.                       *)

MaxUnsortable == 3

\* the labels with an entry, a label without one, and an inherited name
RecLabels ==
    <<"advanced age", "overweight", "high stress", "poor sleep", "low exercise",
      "obesity", "excessive alcohol", "poor diet", "smoking", "middle age">>

\* the labels of `labels` at the positions in S, in the order of `labels`
Pick(labels, S) ==
    LET F[i \in 0..Len(labels)] ==
            IF i = 0 THEN <<>>
            ELSE IF i \in S THEN Append(F[i - 1], labels[i]) ELSE F[i - 1]
    IN F[Len(labels)]

Reverse(seq) == [i \in DOMAIN seq |-> seq[Len(seq) + 1 - i]]

\* every selection of the labels, in two orders; and the short lists, repeats
\* included, over an inherited name and three labels with entries
RecFactorLists ==
    {Pick(RecLabels, S) : S \in SUBSET (1..Len(RecLabels))}
        \cup {Reverse(Pick(RecLabels, S)) : S \in SUBSET (1..Len(RecLabels))}
        \cup UNION {[1..n -> {"constructor", "advanced age", "smoking", "poor sleep"}] :
                        n \in 1..MaxUnsortable}

RiskLevels == {"low", "moderate", "high", "very high"}

GenerateRecommendationsCall ==
    /\ call.fn = "generateRecommendations"
    /\ ret = None
    /\ ret' \in GenerateRecommendationsResults(call.factors, call.riskLevel)
    /\ UNCHANGED <<call, rFactors, rAnswers, rOut, runs, tables, pvars>>

InitRecs ==
    /\ NoPipeline
    /\ NoInvocations
    /\ call \in {[fn |-> "generateRecommendations", factors |-> l, riskLevel |-> r] :
                    l \in RecFactorLists, r \in RiskLevels}
    /\ ret = None

NextRecs == GenerateRecommendationsCall

SpecRecs == InitRecs /\ [][NextRecs]_vars

----------------------------------------------------------------------------
(* extractFactors called on its own (POST /api/analyze/factors), on answers    *)
(* around every limit of the bmi and age rules.                                *)

FactorAges == {Undef, Null, NaN, Str("60")} \cup {Num(a) : a \in {39, 40, 59, 60, 61}}
FactorBmis == {Undef, NaN, Str("30")} \cup {Num(b) : b \in {24, 25, 29, 30, 31}}
FactorSleeps == {Undef, Num(5), Num(7), Str("Poor"), Bool(TRUE)}
FactorSmokers == {Undef, Bool(TRUE), Str("yes")}

\* the four word answers, each absent or a word its rule matches
FactorWords ==
    {Defined([f \in {"exercise", "diet", "alcohol", "stress"} |->
                IF f \in S
                THEN CASE f = "exercise" -> Str("Rarely") [] f = "diet" -> Str("junk")
                       [] f = "alcohol" -> Str("Heavy") [] f = "stress" -> Str("chronic")
                ELSE Undef]) :
        S \in SUBSET {"exercise", "diet", "alcohol", "stress"}}

FactorAnswers ==
    {Defined([f \in {"age", "bmi", "sleep", "smoker"} |->
                CASE f = "age" -> a [] f = "bmi" -> b [] f = "sleep" -> s [] f = "smoker" -> k])
        @@ w :
        a \in FactorAges, b \in FactorBmis, s \in FactorSleeps, k \in FactorSmokers,
        w \in FactorWords}

ExtractFactorsCall ==
    /\ call.fn = "extractFactors"
    /\ ret = None
    /\ ret' = extractFactors(call.answers)
    /\ UNCHANGED <<call, rFactors, rAnswers, rOut, runs, tables, pvars>>

InitFactors ==
    /\ NoPipeline
    /\ NoInvocations
    /\ call \in {[fn |-> "extractFactors", answers |-> m] : m \in FactorAnswers}
    /\ ret = None

NextFactors == ExtractFactorsCall

SpecFactors == InitFactors /\ [][NextFactors]_vars

----------------------------------------------------------------------------
(* Several invocations of runAnalysisPipeline at once. Each invocation has its *)
(* own locals; what they share is the module-level tables. An object of a run  *)
(* that is a module-level array or record itself (not a copy) is an alias: an  *)
(* in-place write to it would change the table for every invocation.          *)
(* runAnalysisPipeline contains no await, so Node runs an invocation to its    *)
(* end before another starts; the steps are interleaved here all the same,     *)
(* which covers every schedule.                                                *)

NumInvocations == 2

Invocations == 1..NumInvocations

\* what a step computes from a table that has been written to
Corrupted == [t |-> "corrupted"]

\* inputs that succeed (with and without a range correction), that are rejected, that
\* halt at parse, and that make the parser throw
SharedCalls ==
    {[input |-> Obj(ScenarioA), isOcr |-> FALSE],
     [input |-> Obj([ScenarioA EXCEPT !["age"] = Num(200)]), isOcr |-> FALSE],
     [input |-> Num(7), isOcr |-> TRUE],
     [input |-> Null, isOcr |-> FALSE],
     [input |-> ProxyInput, isOcr |-> FALSE]}
        \cup {[input |-> t, isOcr |-> TRUE] : t \in TextInputs}

NewRun(c) ==
    [pc |-> "input_validation", input |-> c.input, isOcr |-> c.isOcr, parseResult |-> None,
     warnings |-> <<>>, factorResult |-> None, riskResult |-> None, nSteps |-> 0,
     success |-> FALSE, data |-> Null, error |-> Null, aliases |-> {}]

Alias(path, table) == [path |-> path, table |-> table]

\* return pipelineResult with an error
Halted(r, err) == [r EXCEPT !.pc = "returned", !.error = err, !.nSteps = @ + 1]

\* lines 49-55
RunValidation(r, inputValidation) ==
    IF ~inputValidation.ok
    THEN Halted(r, createErrorResponse("pipeline_error", inputValidation.v, Undef, Undef))
    ELSE IF ~inputValidation.v.isValid
    THEN Halted(r, createErrorResponse(inputValidation.v.status, inputValidation.v.reason,
                                       Undef, Undef))
    ELSE [r EXCEPT !.pc = "parse", !.nSteps = @ + 1]

\* the error result of parseSurvey holds the array CORE_FIELDS itself, and the error
\* response takes parseResult.missing_fields when the check names no fields
ParseAliases(pr, check) ==
    IF ~Truthy(pr.error) THEN {}
    ELSE {Alias("parseResult.missing_fields", "CORE_FIELDS")}
            \cup (IF Truthy(check.missing_fields) THEN {}
                  ELSE {Alias("pipelineResult.error.missing_fields", "CORE_FIELDS")})

\* lines 58-92
RunParse(r, pr, check) ==
    IF ~check.isValid
    THEN [Halted(r, ParseFailure(pr, check)) EXCEPT
            !.parseResult = pr, !.aliases = ParseAliases(pr, check)]
    ELSE [r EXCEPT !.pc = "factors", !.parseResult = Corrected(pr),
                   !.warnings = check.warnings, !.nSteps = @ + 1]

RunParsed(r, pr) == RunParse(r, pr, checkProfileCompleteness(pr))

\* lines 95-104
RunFactors(r) ==
    [r EXCEPT !.pc = "risk", !.factorResult = extractFactors(r.parseResult.answers),
              !.nSteps = @ + 1]

\* lines 107-116
RunRisk(r) ==
    [r EXCEPT !.pc = "recommendations",
              !.riskResult = classifyRisk(r.factorResult.factors, r.parseResult.answers),
              !.nSteps = @ + 1]

\* detailedRecommendations.push(rec) puts the records of GENERAL_RECOMMENDATIONS
\* themselves into the result
RecommendationAliases(recResult) ==
    IF \E i \in DOMAIN recResult.detailed_recommendations :
            recResult.detailed_recommendations[i] \in Range(GENERAL_RECOMMENDATIONS)
    THEN {Alias("data.detailed_recommendations[]", "GENERAL_RECOMMENDATIONS")}
    ELSE {}

\* lines 119-149
RunCompiled(r, recResult) ==
    [r EXCEPT !.pc = "returned", !.success = TRUE, !.nSteps = @ + 1,
              !.data = createSuccessResponse(
                            AnalysisData(r.parseResult,
                                         JsOr(r.parseResult.corrections, Arr(<<>>)).v,
                                         r.factorResult, r.riskResult, recResult, r.warnings,
                                         r.nSteps + 1)),
              !.aliases = RecommendationAliases(recResult)]

RunRecommendations(r) ==
    RunCompiled(r, generateRecommendations(r.factorResult.factors, r.riskResult.risk_level))

\* the step of runAnalysisPipeline at r.pc
RunStep(r) ==
    CASE r.pc = "input_validation" -> RunValidation(r, validateInput(r.input))
      [] r.pc = "parse" -> RunParsed(r, parseSurvey(r.input, r.isOcr))
      [] r.pc = "factors" -> RunFactors(r)
      [] r.pc = "risk" -> RunRisk(r)
      [] r.pc = "recommendations" -> RunRecommendations(r)

\* the objects each step writes to in place (push, sort, property assignment)
ValidationWrites == {"pipelineResult", "pipelineResult.steps"}
\* a failure path that also reorders the list of missing fields in place
ParseFailureWritesFields ==
    {"pipelineResult", "pipelineResult.steps", "parseResult.missing_fields"}
ParseFailureWrites == {"pipelineResult", "pipelineResult.steps"}
ParseSuccessWrites == {"parseResult", "pipelineResult.steps"}
FactorsWrites == {"factors", "factorDetails", "pipelineResult.steps"}
RiskWrites == {"rationale", "pipelineResult.steps"}
RecommendationsWrites ==
    {"recommendations", "detailedRecommendations", "pipelineResult", "pipelineResult.steps"}

\* the tables after in-place writes to the objects at `paths`
Written(paths, aliases) ==
    [T \in DOMAIN tables |->
        IF \E a \in aliases : a.path \in paths /\ a.table = T
        THEN [tables[T] EXCEPT !.written = TRUE] ELSE tables[T]]

\* invocation i takes the step that leads to `next`; a step reads the tables
Advance(i, next, paths) ==
    /\ runs' = [runs EXCEPT ![i] = IF tables = ModuleTables THEN next
                                    ELSE Halted(runs[i], Corrupted)]
    /\ tables' = Written(paths, next.aliases)
    /\ UNCHANGED <<rFactors, rAnswers, rOut, call, ret, pvars>>

InvokeValidation(i) ==
    /\ runs[i].pc = "input_validation"
    /\ Advance(i, RunStep(runs[i]), ValidationWrites)

InvokeParse(i) ==
    /\ runs[i].pc = "parse"
    /\ Advance(i, RunStep(runs[i]),
               IF RunStep(runs[i]).pc = "returned" THEN ParseFailureWrites
               ELSE ParseSuccessWrites)

InvokeFactors(i) ==
    /\ runs[i].pc = "factors"
    /\ Advance(i, RunStep(runs[i]), FactorsWrites)

InvokeRisk(i) ==
    /\ runs[i].pc = "risk"
    /\ Advance(i, RunStep(runs[i]), RiskWrites)

InvokeRecommendations(i) ==
    /\ runs[i].pc = "recommendations"
    /\ Advance(i, RunStep(runs[i]), RecommendationsWrites)

InitShared ==
    /\ NoPipeline
    /\ NoCall
    /\ runs \in [Invocations -> {NewRun(c) : c \in SharedCalls}]
    /\ tables = ModuleTables

NextShared ==
    \E i \in Invocations :
        \/ InvokeValidation(i)
        \/ InvokeParse(i)
        \/ InvokeFactors(i)
        \/ InvokeRisk(i)
        \/ InvokeRecommendations(i)

SpecShared == InitShared /\ [][NextShared]_vars

----------------------------------------------------------------------------
(* runAnalysisPipeline run twice on the same input, each run under its own    *)
(* options. A run carries its option values, the step records pushed so far,  *)
(* the console warnings of the schema checks and the number of checks made.   *)

OptionRuns == {1, 2}

\* what a caller can pass for validateSchemas and for stopOnWarning
OptionValues == {Undef, Bool(TRUE), Bool(FALSE)}

PassedOptions == [validateSchemas : OptionValues, stopOnWarning : OptionValues]

\* inputs as for the concurrent invocations, and one accepted with warnings for a
\* missing core field and an age above 100
OptionCalls ==
    SharedCalls
        \cup {[input |-> Obj([f \in {"age", "smoker", "exercise"} |->
                                CASE f = "age" -> Num(200) [] f = "smoker" -> Bool(TRUE)
                                  [] f = "exercise" -> Str("rarely")]),
               isOcr |-> FALSE]}

\* const { validateSchemas = true, stopOnWarning = false } = options
NewOptionRun(c, o) ==
    [run |-> NewRun(c),
     validateSchemas |-> IF o.validateSchemas = Undef THEN TRUE ELSE Truthy(o.validateSchemas),
     stopOnWarning |-> IF o.stopOnWarning = Undef THEN FALSE ELSE Truthy(o.stopOnWarning),
     steps |-> <<>>, logged |-> <<>>, checked |-> 0]

\* the step record the step from r to next pushes
StepRecorded(r, next) ==
    IF next.pc = "returned" /\ ~next.success
    THEN StepFailure(IF next.error.status = "pipeline_error" THEN "unknown" ELSE r.pc,
                     next.error.reason)
    ELSE StepSuccess(r.pc)

\* pipelineResult.steps.push(...) placed inside `if (validateSchemas)`
RecordStepIfValidated(validateSchemas, pushed, rec) ==
    IF validateSchemas THEN Append(pushed, rec) ELSE pushed

\* pipelineResult.steps.push(...): no option is consulted
RecordStep(validateSchemas, pushed, rec) == Append(pushed, rec)

\* a pipeline that returns after the parse step when stopOnWarning is set and the
\* completeness check carries warnings
HaltOnWarnings(stopOnWarning, r, next) ==
    IF stopOnWarning /\ r.pc = "parse" /\ next.pc # "returned" /\ next.warnings # <<>>
    THEN Halted(r, createErrorResponse("warnings", "Stopped on warnings", Undef, Undef))
    ELSE next

\* stopOnWarning is destructured and never read: the run goes on to `next`
ContinueOnWarnings(stopOnWarning, r, next) == next

\* does the step at r.pc reach its validateSchema call?
ReachesSchemaCheck(r, next) ==
    \/ r.pc = "parse" /\ ~(next.pc = "returned" /\ next.error.status = "pipeline_error")
    \/ r.pc \in {"factors", "risk"}

\* the validation of the stage result the step at r.pc produced
StageValidation(r, next) ==
    CASE r.pc = "parse" -> validateParseResponse(parseSurvey(r.input, r.isOcr))
      [] r.pc = "factors" -> validateFactorResponse(next.factorResult)
      [] r.pc = "risk" -> validateRiskResponse(next.riskResult)

\* if (validateSchemas) { ... if (!validation.isValid) console.warn(...) }
SchemaWarnings(validateSchemas, r, next) ==
    IF validateSchemas /\ ReachesSchemaCheck(r, next) /\ ~StageValidation(r, next).isValid
    THEN <<[stage |-> r.pc, errors |-> StageValidation(r, next).errors]>>
    ELSE <<>>

\* one step of the run s under its options
OptionStep(s, next) ==
    [s EXCEPT !.run = next,
              !.steps = RecordStep(s.validateSchemas, @, StepRecorded(s.run, next)),
              !.logged = @ \o SchemaWarnings(s.validateSchemas, s.run, next),
              !.checked = IF s.validateSchemas /\ ReachesSchemaCheck(s.run, next)
                          THEN @ + 1 ELSE @]

OptionAdvance(i, stage) ==
    /\ runs[i].run.pc = stage
    /\ runs' = [runs EXCEPT ![i] =
                  OptionStep(runs[i], ContinueOnWarnings(runs[i].stopOnWarning, runs[i].run,
                                                         RunStep(runs[i].run)))]
    /\ UNCHANGED <<tables, rFactors, rAnswers, rOut, call, ret, pvars>>

OptionValidation(i) == OptionAdvance(i, "input_validation")
OptionParse(i) == OptionAdvance(i, "parse")
OptionFactors(i) == OptionAdvance(i, "factors")
OptionRisk(i) == OptionAdvance(i, "risk")
OptionRecommendations(i) == OptionAdvance(i, "recommendations")

InitOptions ==
    /\ NoPipeline
    /\ NoCall
    /\ tables = ModuleTables
    /\ \E c \in OptionCalls :
            runs \in [OptionRuns -> {NewOptionRun(c, o) : o \in PassedOptions}]

NextOptions ==
    \E i \in OptionRuns :
        \/ OptionValidation(i)
        \/ OptionParse(i)
        \/ OptionFactors(i)
        \/ OptionRisk(i)
        \/ OptionRecommendations(i)

SpecOptions == InitOptions /\ [][NextOptions]_vars

----------------------------------------------------------------------------
(* parseSurvey called on its own, on every kind of input and either isOcr.     *)

\* an OCR call carries text or a non-string, not the JSON text of an object
ParseCalls ==
    {c \in {[fn |-> "parseSurvey", input |-> i, isOcr |-> o] :
                i \in DirectInputs \cup JsonValues, o \in BOOLEAN} :
        ~(c.isOcr /\ c.input \in JsonTexts)}

ParseSurveyCall ==
    /\ call.fn = "parseSurvey"
    /\ ret = None
    /\ ret' = parseSurvey(call.input, call.isOcr)
    /\ UNCHANGED <<call, rFactors, rAnswers, rOut, runs, tables, pvars>>

InitParse ==
    /\ NoPipeline
    /\ NoInvocations
    /\ call \in ParseCalls
    /\ ret = None

NextParse == ParseSurveyCall

SpecParse == InitParse /\ [][NextParse]_vars

----------------------------------------------------------------------------
(* validateInput on its own: one call on one raw input. *)

NonEmptyArray == Arr(<<Num(1)>>)

ValidateInputs == DirectInputs \cup JsonValues \cup {NonEmptyArray}

ValidateInputCall ==
    /\ call.fn = "validateInput"
    /\ ret = None
    /\ ret' = validateInput(call.input)
    /\ UNCHANGED <<call, rFactors, rAnswers, rOut, runs, tables, pvars>>

InitValidate ==
    /\ NoPipeline
    /\ NoInvocations
    /\ call \in {[fn |-> "validateInput", input |-> i] : i \in ValidateInputs}
    /\ ret = None

NextValidate == ValidateInputCall

SpecValidate == InitValidate /\ [][NextValidate]_vars

----------------------------------------------------------------------------
(* Properties of runAnalysisPipeline, checked under Spec *)

\* the names of the five steps in the order runAnalysisPipeline runs them
StepOrder == <<"input_validation", "parse", "factors", "risk", "recommendations">>

\* runAnalysisPipeline has returned pipelineResult
HasResult == pc \in {"returned", "responded"} /\ (success \/ error # Null)

\* the first n records carry the names of the first n steps
NamedInOrder(n) == n <= Len(StepOrder) /\ \A i \in 1..n : steps[i].step = StepOrder[i]

AllSuccess(n) == \A i \in 1..n : steps[i].success

\* the result is a failure whose last record is a failure record
EndsInFailure == Len(steps) >= 1 /\ ~steps[Len(steps)].success /\ error # Null

\* the result is a success with the five records
FiveSuccesses == Len(steps) = Len(StepOrder) /\ steps[Len(steps)].success /\ error = Null

\* C1 as stated: at every moment the trace is a prefix of the fixed step order,
\* every record before the last is a success, a failed result ends with its only
\* failure record and carries an error, and a successful result has the five
\* records, all successful.
C1_TraceIsPrefixOfStepOrder ==
    /\ NamedInOrder(Len(steps))
    /\ AllSuccess(Len(steps) - 1)
    /\ ~HasResult => AllSuccess(Len(steps))
    /\ (HasResult /\ success) => FiveSuccesses
    /\ (HasResult /\ ~success) => EndsInFailure

\* the catch block has produced the result
CaughtResult == HasResult /\ ~success /\ error.status = "pipeline_error"

\* C1 amended: the trace is a prefix of the fixed step order, except that a run
\* in which a step throws ends with a failure record named "unknown" after the
\* success records of the steps completed before it; every record before the
\* last is a success, a failed result ends with its only failure record and
\* carries an error, and a successful result has the five records.
C1_TraceIsPrefixUnlessCaught ==
    /\ NamedInOrder(IF CaughtResult THEN Len(steps) - 1 ELSE Len(steps))
    /\ AllSuccess(Len(steps) - 1)
    /\ ~HasResult => AllSuccess(Len(steps))
    /\ (HasResult /\ success) => FiveSuccesses
    /\ (HasResult /\ ~success) => EndsInFailure
    /\ CaughtResult => steps[Len(steps)].step = "unknown"

\* a run ended by the catch block: its last record is the failure named "unknown"
C1_CaughtRunReturned ==
    /\ CaughtResult
    /\ steps[Len(steps)].step = "unknown"
    /\ ~steps[Len(steps)].success

\* the result is a failure recorded at the parse step
HaltedAtParse ==
    /\ HasResult /\ ~success
    /\ Len(steps) = 2 /\ steps[2].step = "parse" /\ ~steps[2].success

\* the status with which a run halts at parse, "" when it does not halt there
ParseHaltStatus(in, ocr) ==
    IF validateInput(in).ok /\ validateInput(in).v.isValid
    THEN checkProfileCompleteness(parseSurvey(in, ocr)).status
    ELSE ""

\* every input a caller or a request can pass
AllInputs == DirectInputs \cup JsonValues

\* the statuses with which some input, OCR or not, halts the run at parse
ParseHaltStatuses ==
    {ParseHaltStatus(in, ocr) : in \in AllInputs, ocr \in BOOLEAN} \ {"", "ok"}

\* C2 as stated: each of parse_error, low_confidence, incomplete_profile and
\* no_data is the status of a run that halts at parse, for some accepted input.
C2_FourParseStatusesReachable ==
    /\ HaltedAtParse => error.status = ParseHaltStatus(input, isOcr)
    /\ {"parse_error", "low_confidence", "incomplete_profile", "no_data"}
            \subseteq ParseHaltStatuses

\* C2 amended: a run that halts at parse carries parse_error or
\* incomplete_profile, each of the two for some accepted input; low_confidence
\* and no_data are the status of no run.
C2_TwoParseStatusesReachable ==
    /\ ParseHaltStatuses = {"parse_error", "incomplete_profile"}
    /\ HaltedAtParse => /\ error.status = ParseHaltStatus(input, isOcr)
                        /\ error.status \in {"parse_error", "incomplete_profile"}
    /\ HasResult => error = Null \/ error.status \notin {"low_confidence", "no_data"}

\* a run halted at parse with parse_error: an OCR run on an input that is no text
C2_HaltedWithParseError ==
    HaltedAtParse /\ error.status = "parse_error" /\ isOcr /\ input.t # "string"

\* C3 as stated: an OCR run on an accepted input that fails validateOcrText
\* halts at parse with status invalid_ocr, no later step having run.
C3_BadOcrTextHaltsAtParse ==
    (/\ HasResult /\ isOcr
     /\ steps[1].success
     /\ ~validateOcrText(input).isValid)
        => HaltedAtParse /\ error.status = "invalid_ocr"


\* a non-empty string
Says(x) == x \in STRING /\ x # ""

----------------------------------------------------------------------------
(* Properties of the two HTTP handlers, checked under Spec *)

\* POST /api/analyze has answered with the result of the pipeline
Answered == origin = "http" /\ analyzeRes # None /\ HasResult

\* C4 as stated: POST /api/analyze answers 400 with the error body for a
\* failure with status invalid_input, empty_input or invalid_json, and 200 for
\* every other failure and for success.
C4_InputFailuresAnswer400 ==
    Answered =>
        IF ~success /\ error.status \in {"invalid_input", "empty_input", "invalid_json"}
        THEN analyzeRes = Response(400, error)
        ELSE analyzeRes.code = 200

\* the fields of a success payload the two endpoints share
SharedFields ==
    {"answers", "missing_fields", "corrections", "factors", "risk_level", "score",
     "rationale", "recommendations", "warnings"}

\* C5 as stated: for every request body (input, isOcr) the legacy endpoint
\* answers with the status code and payload status of POST /api/analyze, and on
\* success with the same shared fields.
C5_LegacyAgreesWithAnalyze ==
    (legacyRes # None /\ body.options = Undef) =>
        /\ legacyRes.code = analyzeRes.code
        /\ legacyRes.body.status = analyzeRes.body.status
        /\ analyzeRes.body.status = "ok" =>
              \A f \in SharedFields : legacyRes.body[f] = analyzeRes.body[f]

\* C6 as stated: the call never rejects, whatever the input and the options,
\* and a step that throws yields a failed result with status pipeline_error.
C6_NeverRejects ==
    /\ pc # "rejected"
    /\ (HasResult /\ input = ProxyInput) => ~success /\ error.status = "pipeline_error"

----------------------------------------------------------------------------
(* Properties of classifyRisk, checked under SpecRisk *)

ReadmeRiskLevel(score) ==
    IF score <= 25 THEN "low"
    ELSE IF score <= 50 THEN "moderate"
    ELSE IF score <= 75 THEN "high"
    ELSE "very high"

\* C8 as stated: classifyRisk reports the level the README table gives: low for
\* 0..25, moderate for 26..50, high for 51..75, very high for 76..100.
C8_LevelByReadmeTable ==
    (rOut.score.t = "number" /\ rOut.score.v \in 0..100) =>
        rOut.risk_level = ReadmeRiskLevel(rOut.score.v)

\* the score of a label in the table, 0 for a label that is not in it
TableScore(f) == IF f \in DOMAIN FACTOR_SCORES THEN FACTOR_SCORES[f] ELSE 0

RECURSIVE SumOfTableScores(_)
SumOfTableScores(factors) ==
    IF factors = <<>> THEN 0 ELSE TableScore(Head(factors)) + SumOfTableScores(Tail(factors))

\* C9 as stated: for every list of labels and every age the score is an integer
\* of 0..100, the minimum of 100 and the age base risk plus the table scores.
C9_ScoreIsCappedSum ==
    /\ rOut.score.t = "number"
    /\ rOut.score.v \in 0..100
    /\ rOut.score.v = Min(100, getAgeBaseRisk(Get(rAnswers, "age")) + SumOfTableScores(rFactors))

\* a >= b in JavaScript: false when either side is NaN
JsGeq(a, b) == a.t = "number" /\ b.t = "number" /\ a.v >= b.v

LevelRank(level) ==
    CASE level = "low" -> 0 [] level = "moderate" -> 1 [] level = "high" -> 2
      [] level = "very high" -> 3

\* C10 as stated: a call that adds a factor of positive table score to the list
\* returns a score >= the score of the list before, and a level that is not lower.
C10_AddingFactorNeverLowers ==
    [][\A f \in DOMAIN FACTOR_SCORES :
          (FACTOR_SCORES[f] > 0 /\ rFactors' = Append(rFactors, f)) =>
              /\ JsGeq(rOut'.score, rOut.score)
              /\ LevelRank(rOut'.risk_level) >= LevelRank(rOut.risk_level)]_vars


\* the factors of the call other than middle age, in their order
Narrated == SelectSeq(rFactors, LAMBDA f : f # "middle age")

\* classifyRisk on the factors other than middle age
WithoutMiddleAge == classifyRisk(Narrated, rAnswers)

\* C28: for every factor list the rationale of classifyRisk has exactly one entry per
\* factor other than middle age, in the order of the factor list (the entry the factor
\* gets on its own), and none for middle age; each middle age factor nevertheless adds
\* its table score of 4 to the score, up to the cap.
C28_MiddleAgeScoredNotNarrated ==
    /\ Len(rOut.rationale) = Len(Narrated)
    /\ \A k \in DOMAIN Narrated :
            classifyRisk(<<Narrated[k]>>, rAnswers).rationale = <<rOut.rationale[k]>>
    /\ classifyRisk(<<"middle age">>, rAnswers).rationale = <<>>
    /\ rOut.score =
            IF WithoutMiddleAge.score.t = "number"
            THEN Num(Min(100, WithoutMiddleAge.score.v + 4 * (Len(rFactors) - Len(Narrated))))
            ELSE WithoutMiddleAge.score

\* a list with middle age first and other factors after it got a score below the cap
C28_MiddleAgeFirst ==
    /\ Len(rFactors) >= 3
    /\ rFactors[1] = "middle age"
    /\ Len(Narrated) = Len(rFactors) - 1
    /\ rOut.score.t = "number" /\ rOut.score.v < 100
----------------------------------------------------------------------------
(* Properties of the guardrails and of the parser, checked under Spec *)

\* the parse step has run and its Parse Result is at hand
Parsed == parseResult # None

\* the Parse Result of the run, as parseSurvey returned it
Survey == parseSurvey(input, isOcr)

\* the number of the four core fields named in missing_fields
MissingCore == Cardinality(Range(parseResult.missing_fields) \cap Range(CORE_FIELDS))

\* C11: on a Parse Result without error and with confidence >= 0.3 the
\* completeness check fails with incomplete_profile exactly when 3 or 4 of the
\* four core fields are missing; with 2 of 4 missing it does not.
C11_IncompleteExactlyAboveHalf ==
    (Parsed /\ ~Truthy(parseResult.error) /\ parseResult.confidence >= MIN_CONFIDENCE) =>
        /\ (HaltedAtParse /\ error.status = "incomplete_profile") <=> MissingCore \in {3, 4}
        /\ checkProfileCompleteness(parseSurvey(input, isOcr)).status = "incomplete_profile"
              <=> MissingCore \in {3, 4}

\* a Parse Result with exactly two of the four core fields missing has passed
C11_HalfMissingPasses ==
    Parsed /\ MissingCore = 2 /\ ~Truthy(parseResult.error) /\ pc = "factors"
----------------------------------------------------------------------------
(* Properties of validateAnswerRanges, checked under SpecRanges *)

Returned == ret # None

\* the bounds CONFIG gives to a numeric field
FieldMin(f) == CASE f = "age" -> AGE_MIN [] f = "bmi" -> BMI_MIN [] f = "sleep" -> SLEEP_MIN
FieldMax(f) == CASE f = "age" -> AGE_MAX [] f = "bmi" -> BMI_MAX [] f = "sleep" -> SLEEP_MAX

\* the Corrections of the result that name the field f
CorrectionsOf(f) == SelectSeq(ret.corrections, LAMBDA c : c.field = f)

IsNumeric(x) == x.t = "number"

\* C12: for every answers mapping with a numeric age, bmi or sleep the corrected value
\* lies within the field's bounds; a value inside the bounds is returned unchanged with
\* no Correction for the field; a value outside is replaced by the nearest bound with
\* exactly one Correction {field, clamped_to_min / clamped_to_max, original}.
C12_NumericFieldsClamped ==
    Returned =>
        \A f \in {"age", "bmi", "sleep"} :
            LET x == Get(call.answers, f)
                y == Get(ret.correctedAnswers, f)
            IN IsNumeric(x) =>
                /\ IsNumeric(y) /\ FieldMin(f) <= y.v /\ y.v <= FieldMax(f)
                /\ (FieldMin(f) <= x.v /\ x.v <= FieldMax(f)) =>
                        y = x /\ CorrectionsOf(f) = <<>>
                /\ x.v < FieldMin(f) =>
                        /\ y = Num(FieldMin(f))
                        /\ CorrectionsOf(f) = <<Correction(f, "clamped_to_min", x)>>
                /\ x.v > FieldMax(f) =>
                        /\ y = Num(FieldMax(f))
                        /\ CorrectionsOf(f) = <<Correction(f, "clamped_to_max", x)>>

\* age 200 came back as 150 with one clamped_to_max Correction, and a bmi below
\* the minimum came back as the minimum
C12_Age200ClampedTo150 ==
    /\ Returned
    /\ Get(call.answers, "age") = Num(200)
    /\ Get(ret.correctedAnswers, "age") = Num(150)
    /\ CorrectionsOf("age") = <<Correction("age", "clamped_to_max", Num(200))>>
    /\ Get(call.answers, "bmi") = Num(BMI_MIN - 1)
    /\ Get(ret.correctedAnswers, "bmi") = Num(BMI_MIN)
\* C20: every alteration made by validateAnswerRanges is recorded: each field whose
\* corrected value differs from its input value has at least one Correction naming it,
\* and when corrections is empty (isValid) correctedAnswers equals the input mapping.
C20_EveryAlterationRecorded ==
    Returned =>
        /\ DOMAIN ret.correctedAnswers = DOMAIN call.answers
        /\ \A f \in DOMAIN call.answers :
              ret.correctedAnswers[f] # call.answers[f] => CorrectionsOf(f) # <<>>
        /\ ret.isValid <=> ret.corrections = <<>>
        /\ ret.isValid => ret.correctedAnswers = call.answers

\* C21: validateAnswerRanges turns a string smoker into a boolean with the synonym sets
\* of normalizeBoolean: the corrected smoker is true exactly when normalizeBoolean gives
\* true, false exactly when it gives false, with a normalized_to_boolean Correction in
\* both cases.
C21_SmokerAsNormalizer ==
    (Returned /\ Get(call.answers, "smoker").t = "string") =>
        LET s == call.answers["smoker"]
            y == ret.correctedAnswers["smoker"]
        IN /\ y = Bool(TRUE) <=> normalizeBoolean(s) = Bool(TRUE)
           /\ y = Bool(FALSE) <=> normalizeBoolean(s) = Bool(FALSE)
           /\ normalizeBoolean(s) # Null =>
                 CorrectionsOf("smoker") = <<Correction("smoker", "normalized_to_boolean", s)>>

----------------------------------------------------------------------------
(* Properties of generateRecommendations, checked under SpecRecs *)

\* the factor recommendations matched by the call's factor list
Matched == FactorRecommendations(call.factors)

\* the general recommendations the call appends
Appended ==
    IF call.riskLevel \in {"high", "very high"}
    THEN SelectSeq(GENERAL_RECOMMENDATIONS,
                   LAMBDA g : \A i \in DOMAIN Matched : Matched[i].primary # g.primary)
    ELSE <<>>

Candidates == Matched \o Appended

HasPriority(r) == r.priority.t = "number"

\* the number of candidates whose priority is a number below p
CandidatesBelow(p) ==
    Cardinality({i \in DOMAIN Candidates :
                    HasPriority(Candidates[i]) /\ Candidates[i].priority.v < p})

\* C13: for every factor list and risk level generateRecommendations returns at most 5
\* entries, sorted ascending by priority, which are the 5 lowest-priority-number entries
\* among the matched factor recommendations and the appended general recommendations
\* (exactly 5 when 8 are matched), and the flat recommendations list holds the primary
\* texts of detailed_recommendations in the same order.
C13_TopFiveByPriority ==
    Returned =>
        LET top == ret.detailed_recommendations
        IN /\ Len(top) = Min(TOP_RECOMMENDATIONS, Len(Candidates))
           /\ \A i \in DOMAIN top : top[i] \in Range(Candidates) /\ HasPriority(top[i])
           /\ \A i, j \in DOMAIN top : i < j => top[i].priority.v <= top[j].priority.v
           /\ \A i \in DOMAIN top : CandidatesBelow(top[i].priority.v) < TOP_RECOMMENDATIONS
           /\ \A i \in DOMAIN Candidates :
                  HasPriority(Candidates[i]) /\
                  (Candidates[i] \notin Range(top) => CandidatesBelow(Candidates[i].priority.v + 1) >= Len(top))
           /\ Len(Matched) = 8 => Len(top) = 5
           /\ ret.recommendations = [i \in DOMAIN top |-> top[i].primary]
\* the completeness check of the run has succeeded
CheckPassed == Parsed /\ checkProfileCompleteness(Survey).isValid

\* the warnings of the run hold an unusual_value warning for the field
WarnsUnusual(f) ==
    \E i \in DOMAIN warnings : warnings[i].type = "unusual_value" /\ warnings[i].field = Str(f)

\* the parsed value of the field is known and lies outside lo..hi
KnownOutside(f, lo, hi) ==
    /\ Get(Survey.answers, f).t = "number"
    /\ (Get(Survey.answers, f).v < lo \/ Get(Survey.answers, f).v > hi)

\* C22: when checkProfileCompleteness succeeds it attaches an unusual_value warning for
\* age exactly when a known age is outside [18,100] and for bmi exactly when a known bmi
\* is outside [15,50], none for a field that is absent or null, and the warnings never
\* block the pipeline.
C22_UnusualValueWarnings ==
    CheckPassed =>
        /\ warnings = checkProfileCompleteness(Survey).warnings
        /\ WarnsUnusual("age") <=> KnownOutside("age", 18, 100)
        /\ WarnsUnusual("bmi") <=> KnownOutside("bmi", 15, 50)
        /\ pc # "returned" \/ success

----------------------------------------------------------------------------
(* Properties of the confidences, checked under Spec *)

CoreAbsentOrNull(answers) ==
    Cardinality({f \in {"age", "smoker", "exercise", "diet"} :
                    f \notin DOMAIN answers \/ answers[f] \in {Undef, Null}})

ExplicitNulls(answers) == Cardinality({f \in DOMAIN answers : answers[f] = Null})

\* the confidence formula of the specification, in hundredths, before clamping
ConfidenceFormula(answers, ocr) ==
    100 - (IF ocr THEN 10 ELSE 0) - 5 * CoreAbsentOrNull(answers) - 2 * ExplicitNulls(answers)

Clamp(x, lo, hi) == IF x < lo THEN lo ELSE IF x > hi THEN hi ELSE x

\* C14: the parse confidence, in hundredths, is clamp(100 - 10*[isOcr] - 5*(core fields
\* absent or null) - 2*(fields explicitly null), 0, 100); and for the same resulting
\* answer mapping the OCR path's confidence is exactly 10 hundredths below the
\* structured path's when nothing is clamped.
C14_ConfidenceFollowsFormula ==
    (Parsed /\ ~Truthy(Survey.error)) =>
        /\ Survey.confidence = Clamp(ConfidenceFormula(Survey.answers, isOcr), 0, 100)
        /\ parseResult.confidence = Survey.confidence
        /\ (/\ ~Truthy(parseSurvey(input, TRUE).error)
            /\ ~Truthy(parseSurvey(input, FALSE).error)
            /\ parseSurvey(input, TRUE).answers = parseSurvey(input, FALSE).answers
            /\ ConfidenceFormula(Survey.answers, TRUE) \in 0..100
            /\ ConfidenceFormula(Survey.answers, FALSE) \in 0..100)
           => parseSurvey(input, TRUE).confidence = parseSurvey(input, FALSE).confidence - 10

\* an OCR run whose text yields an answer mapping the structured path yields too, with
\* core fields missing
C14_OcrRunTenBelow ==
    /\ Parsed /\ isOcr /\ ~Truthy(Survey.error)
    /\ parseSurvey(input, FALSE).answers = Survey.answers
    /\ CoreAbsentOrNull(Survey.answers) > 0
    /\ parseResult.confidence = parseSurvey(input, FALSE).confidence - 10
\* C15: the confidence parseSurvey returns and the confidence extractFactors returns
\* lie within [0,1] (0..100 hundredths) in every state of a run, the error Parse Result
\* (confidence 0) included.
C15_ConfidencesWithinUnitInterval ==
    /\ Parsed =>
          /\ Survey.confidence \in 0..100
          /\ parseResult.confidence \in 0..100
          /\ Truthy(Survey.error) => Survey.confidence = 0
          /\ extractFactors(Survey.answers).confidence \in 0..100
    /\ factorResult # None => factorResult.confidence \in 0..100
    /\ (HasResult /\ success) =>
          data.parse_confidence \in 0..100 /\ data.factor_confidence \in 0..100

\* a run past the factors step in which both confidences are below 1
C15_BothConfidencesReduced ==
    /\ factorResult # None
    /\ factorResult.confidence \in 0..99
    /\ parseResult.confidence \in 0..99
----------------------------------------------------------------------------
(* End-to-end scenarios, checked under Spec *)

\* scenario A has been run as structured input (an object, or its JSON text) and the
\* run has returned
RanScenarioA ==
    /\ HasResult
    /\ ~isOcr
    /\ input \in {Obj(ScenarioA), JsonInput(Obj(ScenarioA), 93)}

Primaries == [i \in DOMAIN ret.detailed_recommendations |->
                ret.detailed_recommendations[i].primary]

\* C26: the recommendation list is deduplicated: for every sequence of factor labels
\* and every risk level no two returned entries have the same primary text, and a
\* general recommendation (appended only at high and very high risk) is present only
\* when no factor-specific entry has the same primary text.
C26_NoRepeatedPrimary ==
    (Returned /\ call.fn = "generateRecommendations") =>
        /\ \A i, j \in DOMAIN Primaries : Primaries[i] = Primaries[j] => i = j
        /\ ret.recommendations = Primaries
        /\ \A i \in DOMAIN ret.detailed_recommendations :
                ret.detailed_recommendations[i] \in Range(GENERAL_RECOMMENDATIONS) =>
                    /\ call.riskLevel \in {"high", "very high"}
                    /\ \A m \in DOMAIN Matched :
                            Matched[m].primary # ret.detailed_recommendations[i].primary

----------------------------------------------------------------------------
(* Properties of extractFactors, checked under SpecFactors *)

AtMostOneOf(labels, factors) ==
    Cardinality({i \in DOMAIN factors : factors[i] \in labels}) <= 1

NoLabelTwice(factors) == \A i, j \in DOMAIN factors : factors[i] = factors[j] => i = j

\* C17: a factor list holds at most one of obesity and overweight, at most one of
\* advanced age and middle age, and no label twice.
C17_ExclusiveFactors ==
    Returned =>
        /\ AtMostOneOf({"obesity", "overweight"}, ret.factors)
        /\ AtMostOneOf({"advanced age", "middle age"}, ret.factors)
        /\ NoLabelTwice(ret.factors)
        /\ Len(ret.factor_details) = Len(ret.factors)

\* bmi 30 and age 60 gave obesity and advanced age, and neither overweight nor middle age
C17_OnTheLimits ==
    /\ Returned
    /\ Get(call.answers, "bmi") = Num(30) /\ Get(call.answers, "age") = Num(60)
    /\ {"obesity", "advanced age"} \subseteq Range(ret.factors)
    /\ Range(ret.factors) \cap {"overweight", "middle age"} = {}

\* the place of the rule `id` in the declaration of FACTOR_RULES
Declared(id) == CHOOSE k \in DOMAIN FACTOR_RULES : FACTOR_RULES[k].id = id

\* C27: extractFactors returns the matched factors sorted by weight descending; factors
\* of equal weight (low exercise and obesity, 0.85) keep their declaration order, low
\* exercise before obesity; and factors[i] is the label of factor_details[i].
C27_SortedByWeight ==
    (Returned /\ call.fn = "extractFactors") =>
        /\ {ret.factor_details[i].id : i \in DOMAIN ret.factor_details}
                = {r.id : r \in {q \in Range(FACTOR_RULES) : RuleCheck(q.id, call.answers)}}
        /\ \A i \in DOMAIN ret.factor_details : ret.factor_details[i] \in Range(FACTOR_RULES)
        /\ \A i, j \in DOMAIN ret.factor_details :
                i < j =>
                    \/ ret.factor_details[i].weight > ret.factor_details[j].weight
                    \/ /\ ret.factor_details[i].weight = ret.factor_details[j].weight
                       /\ Declared(ret.factor_details[i].id) < Declared(ret.factor_details[j].id)
        /\ ret.factors = [i \in DOMAIN ret.factor_details |-> ret.factor_details[i].label]

\* low exercise and obesity were both matched, and low exercise came first
C27_TieKeptInOrder ==
    /\ Returned
    /\ call.fn = "extractFactors"
    /\ \E i, j \in DOMAIN ret.factors :
            i < j /\ ret.factors[i] = "low exercise" /\ ret.factors[j] = "obesity"
----------------------------------------------------------------------------
(* Properties of concurrent invocations, checked under SpecShared *)

\* the invocation run alone, to its end
RECURSIVE Alone(_)
Alone(r) == IF r.pc = "returned" THEN r ELSE Alone(RunStep(r))

Outcome(r) == [success |-> r.success, data |-> r.data, error |-> r.error]

\* C18: in any interleaving of several invocations each invocation's result equals the
\* result of running it alone on the same input, and the module-level tables have the
\* content they started with.
C18_InvocationsIndependent ==
    /\ tables = ModuleTables
    /\ \A i \in DOMAIN runs :
          runs[i].pc = "returned" =>
              Outcome(runs[i]) = Outcome(Alone(NewRun([input |-> runs[i].input,
                                                        isOcr |-> runs[i].isOcr])))

\* two invocations have returned, one holding the array CORE_FIELDS itself in its
\* error, the other successful with records of GENERAL_RECOMMENDATIONS in its data
C18_AliasesHeldAtReturn ==
    /\ DOMAIN runs = Invocations
    /\ runs[1].pc = "returned" /\ runs[2].pc = "returned"
    /\ Alias("pipelineResult.error.missing_fields", "CORE_FIELDS") \in runs[1].aliases
    /\ runs[2].success
    /\ Alias("data.detailed_recommendations[]", "GENERAL_RECOMMENDATIONS") \in runs[2].aliases
----------------------------------------------------------------------------
(* Properties of parseSurvey, checked under SpecParse *)

IsParseResult(r) ==
    /\ DOMAIN r = {"answers", "missing_fields", "confidence", "error", "corrections"}
    /\ r.confidence \in 0..100
    /\ Range(r.missing_fields) \subseteq Range(CORE_FIELDS)

\* the pipeline run alone on the call's input
PipelineOnCall == Alone(NewRun([input |-> call.input, isOcr |-> call.isOcr]))

\* the call's input passes validateInput
InputAccepted == validateInput(call.input).ok /\ validateInput(call.input).v.isValid

\* C19: parseSurvey returns a Parse Result for every input (string, mapping, array,
\* number, null, undefined) and either isOcr; when parsing fails the result is
\* {answers: {}, missing_fields: the four core fields, confidence: 0, error: message},
\* and the pipeline then fails at parse with status parse_error.
C19_ParseSurveyNeverThrows ==
    Returned =>
        /\ IsParseResult(ret)
        /\ Truthy(ret.error) =>
              /\ ret.answers = EmptyMap
              /\ ret.missing_fields = <<"age", "smoker", "exercise", "diet">>
              /\ ret.confidence = 0
              /\ ret.error.t = "string"
              /\ InputAccepted =>
                    /\ PipelineOnCall.error.status = "parse_error"
                    /\ ~PipelineOnCall.success
                    /\ PipelineOnCall.nSteps = 2
        /\ (InputAccepted /\ PipelineOnCall.error # Null
                /\ PipelineOnCall.error.status = "parse_error") => Truthy(ret.error)

\* the parser threw on an input the pipeline accepts, and parseSurvey returned
C19_ParserThrewAndReturned ==
    /\ Returned
    /\ Truthy(ret.error)
    /\ InputAccepted
    /\ call.isOcr

\* the integer a raw age stands for: a number itself, a numeric string its value;
\* Undef when the value cannot be parsed as an integer
AgeMeant(raw) ==
    IF raw.t = "number" THEN raw
    ELSE IF raw.t = "string" /\ raw.v \in DOMAIN LeadingDigits THEN Num(LeadingDigits[raw.v])
    ELSE Undef

\* C23: for a structured input whose age is an integer in 0..150, given as a number or
\* as a numeric string, parseSurvey returns answers.age equal to that integer and does
\* not list age among the missing fields; answers.age is null only when the value
\* cannot be parsed as an integer (so zero stays distinct from unknown).
C23_AgeKept ==
    (Returned /\ ~call.isOcr /\ call.input.t = "object" /\ "age" \in DOMAIN call.input.v) =>
        LET meant == AgeMeant(call.input.v["age"])
        IN /\ (meant # Undef /\ meant.v \in AGE_MIN..AGE_MAX) =>
                 /\ Get(ret.answers, "age") = meant
                 /\ "age" \notin Range(ret.missing_fields)
           /\ Get(ret.answers, "age") = Null => meant = Undef
----------------------------------------------------------------------------
(* Properties of validateInput, checked under SpecValidate *)

\* the class the input belongs to by its shape alone
InputKind(in) ==
    IF in.t \in {"null", "undefined", "array"} THEN "invalid_input"
    ELSE IF (in.t = "string" /\ in.form = "blank") \/ (in.t = "object" /\ DOMAIN in.v = {})
    THEN "empty_input"
    ELSE IF in.t = "string" /\ in.form = "badjson" THEN "invalid_json"
    ELSE "valid"

\* the outcome validateInput reported
OutcomeOf(res) == IF res.isValid THEN "valid" ELSE res.status

----------------------------------------------------------------------------
(* Properties of the options of runAnalysisPipeline, checked under SpecOptions *)

\* what a caller gets back from the run s
ResultOf(s) == [success |-> s.run.success, steps |-> s.steps, data |-> s.run.data,
                error |-> s.run.error]

\* the part of the result fixed so far agrees between two runs
SameSoFar(s, t) ==
    /\ \A k \in 1..Min(Len(s.steps), Len(t.steps)) : s.steps[k] = t.steps[k]
    /\ (s.run.pc = "returned" /\ t.run.pc = "returned") => ResultOf(s) = ResultOf(t)

\* C25: validateSchemas never changes the control flow: two runs on the same input
\* that differ only in validateSchemas push the same step records and return the
\* same success flag, data and error; a failed schema check only logs a warning.
C25_ValidateSchemasNoEffect ==
    \A i, j \in DOMAIN runs :
        runs[i].stopOnWarning = runs[j].stopOnWarning => SameSoFar(runs[i], runs[j])

\* a run that made its three schema checks and a run that made none both succeeded
C25_CheckedAndUncheckedReturned ==
    /\ runs # <<>>
    /\ runs[1].validateSchemas /\ runs[1].checked = 3
    /\ ~runs[2].validateSchemas /\ runs[2].checked = 0
    /\ runs[1].stopOnWarning = runs[2].stopOnWarning
    /\ runs[1].run.success /\ runs[2].run.success
\* the run s got past the completeness check with warnings
RanWithWarnings(s) == s.run.warnings # <<>>

\* C29: stopOnWarning has no effect: two runs on the same input that differ only in
\* stopOnWarning return the same result, and a run whose completeness check carries
\* warnings still executes factors, risk and recommendations and ends in success with
\* the warnings in its data.
C29_StopOnWarningNoEffect ==
    /\ \A i, j \in DOMAIN runs :
            runs[i].validateSchemas = runs[j].validateSchemas => SameSoFar(runs[i], runs[j])
    /\ \A i \in DOMAIN runs :
            (runs[i].run.pc = "returned" /\ RanWithWarnings(runs[i])) =>
                /\ runs[i].run.success
                /\ [k \in DOMAIN runs[i].steps |-> runs[i].steps[k].step] = StepOrder
                /\ \A k \in DOMAIN runs[i].steps : runs[i].steps[k].success
                /\ runs[i].run.data.warnings = runs[i].run.warnings

\* a run with stopOnWarning set and one without both returned with warnings
C29_WarnedRunsReturned ==
    /\ runs # <<>>
    /\ runs[1].stopOnWarning /\ ~runs[2].stopOnWarning
    /\ runs[1].validateSchemas = runs[2].validateSchemas
    /\ runs[1].run.pc = "returned" /\ runs[2].run.pc = "returned"
    /\ RanWithWarnings(runs[1]) /\ RanWithWarnings(runs[2])

====
